---- MODULE Spec2Model ----
(***************************************************************************)
(* A model of src/credentials-manager.js (class CredentialsManager):       *)
(*   - the profile store: loadCredentials / saveCredentials on one         *)
(*     section-keyed credentials file shared by several invocations,       *)
(*   - the session validity check getSessionExpirationFromCredentials,     *)
(*   - the role resolver prepareRoleWithSAML,                              *)
(*   - the exchange assumeRoleWithSAML, with IAM and STS as services that  *)
(*     answer or fail.                                                     *)
(*                                                                         *)
(* The file is a sequence of bytes, which are read and written as UTF-8,   *)
(* and every string the code converts (credential values, dates, section   *)
(* and key names) is a sequence of characters: ini.parse, ini.encode,      *)
(* JSON.parse, JSON.stringify, Date.parse and toISOString are computed     *)
(* character by character as the libraries compute them.  Role names, role *)
(* identifiers and the errors of the services are only compared, and are   *)
(* TLA+ strings.  fs.readFile is an open, an fstat, reads of one buffer    *)
(* each and a close; fs.writeFile is an open that truncates, writes of one *)
(* chunk each and a close; sizes and positions are in bytes.  A request to *)
(* IAM or STS is sent in the step that reaches it, and answered in a later *)
(* one.  The values that ini.parse                                         *)
(* makes are JavaScript objects with their prototypes: a section or a key  *)
(* that is named as a property of a built-in object reads, and writes,     *)
(* that object.  Every invocation runs in a process of its own, which has  *)
(* its built-in objects and, with the others, the time zone of the host.   *)
(***************************************************************************)
EXTENDS Integers, Sequences, FiniteSets, TLC

VARIABLES
  file,        \* what is at the path: [exists, readable, writable, data, kind]
  dir,         \* TRUE when dirname(path) exists
  perm,        \* what this user may do at the path: [search, mkdir, create]
  now,         \* the clock, milliseconds since the epoch (Date.now())
  pc,          \* pc[i]: where invocation i stands
  call,        \* call[i]: the operation invocation i runs, with its arguments
  rd,          \* rd[i]: the pending fs.readFile of invocation i: [size, data, code]
  wr,          \* wr[i]: the bytes that the pending fs.writeFile of invocation i has
               \* written, the position of its descriptor
  credentials, \* credentials[i]: the local variable `credentials` of the running method
  result,      \* result[i]: what the operation returned (or threw)
  pre,         \* history: pre[i] is the file when saveCredentials was called, and the
               \* file as the last completed writeFile left it when loadCredentials was
  post,        \* history: post[i] is the file when i's writeFile had closed it
  overlapped,  \* history: overlapped[i] holds when another save ran during i's save
  committed,   \* history: the file as the last completed writeFile (or the start) left it
  evalNow,     \* history: evalNow[i] is the Date.now() the validity check compared with
  seen,        \* history: seen[i] is the invocations whose save had returned when
               \* loadCredentials was called
  rsIn,        \* role resolver: what parser.parseSamlResponse returned, and customRoleArn
  rsOut,       \* role resolver: what prepareRoleWithSAML returned or threw
  ar,          \* ar[i]: the arguments and locals of assumeRoleWithSAML, and the history
               \* of what invocation i has asked of IAM, STS, the logger and fs.writeFile
  hist,        \* history: hist[p] is what the validity checks of profile p have
               \* returned since p was last saved, for the profiles p followed
  zone,        \* the local time of the host, in seconds east of UTC
  builtins     \* builtins[i]: the built-in objects of the process of invocation i
               \* that ini.parse gave a property, with the properties they have since

vars == <<file, dir, perm, now, pc, call, rd, wr, credentials, result, pre, post,
          overlapped, committed, evalNow, seen, rsIn, rsOut, ar, hist, zone, builtins>>

----------------------------------------------------------------------------
(* Program constants *)

\* src/credentials-manager.js:16, milliseconds
SESSION_EXPIRATION_DELTA == 30000

----------------------------------------------------------------------------
(* Bounds of the model *)

\* the clock runs over the seconds 0..MaxNowSec
MaxNowSec == 2
\* stored expirations run over the seconds (delta - 1)..(delta + MaxExpSec)
MaxExpSec == 2
\* millisecond fractions of clock and expirations run over 0..MaxMs
MaxMs == 1
\* the parser returns at most MaxRoles roles
MaxRoles == 3
\* custom and maximum session durations run over 1..MaxHours hours
MaxHours == 2

----------------------------------------------------------------------------
(* Characters.  A text is a sequence of one-character strings; a character *)
(* that TLA+ cannot write (a control character, a character beyond ASCII)  *)
(* is the string "U+hhhh" of its code point.                               *)

Digits == <<"0", "1", "2", "3", "4", "5", "6", "7", "8", "9">>

Digit(n) == Digits[n + 1]

DigitSet == {Digits[n] : n \in 1..10}

IsDigit(c) == c \in DigitSet

DigitVal(c) == CHOOSE n \in 0..9 : Digits[n + 1] = c

Upper == <<"A", "B", "C", "D", "E", "F", "G", "H", "I", "J", "K", "L", "M",
           "N", "O", "P", "Q", "R", "S", "T", "U", "V", "W", "X", "Y", "Z">>

Lower == <<"a", "b", "c", "d", "e", "f", "g", "h", "i", "j", "k", "l", "m",
           "n", "o", "p", "q", "r", "s", "t", "u", "v", "w", "x", "y", "z">>

UpperSet == {Upper[n] : n \in 1..26}

\* the characters U+0020..U+007E in the order of their codes
Printable ==
  <<" ", "!", "\"", "#", "$", "%", "&", "'", "(", ")", "*", "+", ",", "-", ".", "/">>
    \o Digits \o <<":", ";", "<", "=", ">", "?", "@">> \o Upper
    \o <<"[", "\\", "]", "^", "_", "U+0060">> \o Lower \o <<"{", "|", "}", "~">>

HexDigits == Digits \o <<"a", "b", "c", "d", "e", "f">>

HexUpper == Digits \o <<"A", "B", "C", "D", "E", "F">>

IsHex(c) == \E n \in 1..16 : HexDigits[n] = c \/ HexUpper[n] = c

HexVal(c) == CHOOSE n \in 0..15 : HexDigits[n + 1] = c \/ HexUpper[n + 1] = c

\* the character of a code point below U+0100 of which the digits are h, l
CharOfCode(h, l) ==
  LET n == 16 * h + l IN
  IF n >= 32 /\ n <= 126 THEN Printable[n - 31]
  ELSE IF n = 9 THEN "\t"
  ELSE IF n = 10 THEN "\n"
  ELSE IF n = 12 THEN "\f"
  ELSE IF n = 13 THEN "\r"
  ELSE "U+00" \o HexUpper[h + 1] \o HexUpper[l + 1]

\* the characters below U+0020
ControlChars == {CharOfCode(h, l) : h \in 0..1, l \in 0..15}

\* the digits h, l of the code of a control character
ControlCode(c) ==
  CHOOSE p \in (0..1) \X (0..15) : CharOfCode(p[1], p[2]) = c

\* WhiteSpace of ECMAScript: TAB, VT, FF, ZWNBSP and the characters of the
\* Unicode category Zs
WhiteSpaceOnly ==
  {"\t", "U+000B", "\f", " ", "U+00A0", "U+1680", "U+2000", "U+2001", "U+2002",
   "U+2003", "U+2004", "U+2005", "U+2006", "U+2007", "U+2008", "U+2009",
   "U+200A", "U+202F", "U+205F", "U+3000", "U+FEFF"}

LineTerminators == {"\n", "\r", "U+2028", "U+2029"}

\* WhiteSpace and LineTerminator: what String.prototype.trim cuts and what
\* \s matches
WhiteSpaceChars == WhiteSpaceOnly \cup LineTerminators

IsWhiteSpace(c) == c \in WhiteSpaceChars

\* the characters of a code below that of "A"
BelowA ==
  ControlChars \cup DigitSet
    \cup {" ", "!", "\"", "#", "$", "%", "&", "'", "(", ")", "*", "+", ",", "-",
          ".", "/", ":", ";", "<", "=", ">", "?", "@"}

\* c | 0x20 on a letter
ToLower(c) ==
  IF c \in UpperSet THEN Lower[CHOOSE n \in 1..26 : Upper[n] = c] ELSE c

Contains(s, c) == \E n \in 1..Len(s) : s[n] = c

\* the first index from n on of which the character is not in the set
\* (Len(s) + 1 when there is none)
SkipWhile(s, n, set) ==
  IF n > Len(s) THEN n
  ELSE
  CHOOSE m \in n..(Len(s) + 1) :
    /\ \A k \in n..(m - 1) : s[k] \in set
    /\ m = Len(s) + 1 \/ s[m] \notin set

\* the first index from n on of which the character is in the set
SkipUntil(s, n, set) ==
  IF n > Len(s) THEN n
  ELSE
  CHOOSE m \in n..(Len(s) + 1) :
    /\ \A k \in n..(m - 1) : s[k] \notin set
    /\ m = Len(s) + 1 \/ s[m] \in set

\* String.prototype.trim
Trim(s) ==
  LET a == SkipWhile(s, 1, WhiteSpaceChars) IN
  IF a > Len(s) THEN <<>>
  ELSE SubSeq(s, a, CHOOSE b \in a..Len(s) :
                      /\ ~IsWhiteSpace(s[b])
                      /\ \A k \in (b + 1)..Len(s) : IsWhiteSpace(s[k]))

RECURSIVE DigitsOf(_)
\* the decimal digits of a natural number
DigitsOf(n) == IF n < 10 THEN <<Digit(n)>> ELSE Append(DigitsOf(n \div 10), Digit(n % 10))

RECURSIVE ValueOf(_, _)
\* the number of which the first k characters of s are the decimal digits
ValueOf(s, k) == IF k = 0 THEN 0 ELSE 10 * ValueOf(s, k - 1) + DigitVal(s[k])

----------------------------------------------------------------------------
(* JavaScript numbers that are times: NaN, or an integer number of         *)
(* milliseconds kept as whole days since the epoch and milliseconds of the *)
(* day, since a time of today is beyond the integers of the checker.       *)

MsPerDay == 86400000

\* the days on each side of the epoch of ECMAScript's time range
MaxDays == 100000000

Time(d, ms) == [nan |-> FALSE, d |-> d + (ms \div MsPerDay), ms |-> ms % MsPerDay]

Num(n) == Time(0, n)

NaN == [nan |-> TRUE, d |-> 0, ms |-> 0]

\* a - b and a > b on JavaScript numbers: NaN - b is NaN, NaN > b is false
NumSub(a, b) == IF a.nan \/ b.nan THEN NaN ELSE Time(a.d - b.d, a.ms - b.ms)

NumGt(a, b) == ~a.nan /\ ~b.nan /\ (a.d > b.d \/ (a.d = b.d /\ a.ms > b.ms))

\* TimeClip: a time more than 8.64e15 ms from the epoch is NaN
TimeClip(t) ==
  IF t.nan \/ t.d > MaxDays \/ (t.d = MaxDays /\ t.ms > 0) \/ t.d < -MaxDays
  THEN NaN ELSE t

Pad2(n) == <<Digit((n \div 10) % 10), Digit(n % 10)>>

Pad3(n) == <<Digit((n \div 100) % 10), Digit((n \div 10) % 10), Digit(n % 10)>>

EpochDate == <<"1", "9", "7", "0", "-", "0", "1", "-", "0", "1">>

\* Date.prototype.toISOString of a time of the first day of the epoch:
\* YYYY-MM-DDTHH:mm:ss.sssZ
toISOString(t) ==
  EpochDate \o <<"T">> \o Pad2(t \div 3600000) \o <<":">>
    \o Pad2((t \div 60000) % 60) \o <<":">>
    \o Pad2((t \div 1000) % 60) \o <<".">>
    \o Pad3(t % 1000) \o <<"Z">>
----------------------------------------------------------------------------
(* new Date(string).getTime(), as V8's date parser computes it: the        *)
(* ES5 date-time format first, the legacy format for what is left.         *)

\* kNone of the parser: kMaxInt
None == 2147483647

Tok(t, n, len, c, kt, kv) == [t |-> t, n |-> n, len |-> len, c |-> c, kt |-> kt, kv |-> kv]

EndTok == Tok("end", 0, 0, "", "", 0)

Keyword(w, kt, kv) == [w |-> w, kt |-> kt, kv |-> kv]

\* KeywordTable::array
KeywordTable ==
  <<Keyword(<<"j", "a", "n">>, "MONTH_NAME", 1), Keyword(<<"f", "e", "b">>, "MONTH_NAME", 2),
    Keyword(<<"m", "a", "r">>, "MONTH_NAME", 3), Keyword(<<"a", "p", "r">>, "MONTH_NAME", 4),
    Keyword(<<"m", "a", "y">>, "MONTH_NAME", 5), Keyword(<<"j", "u", "n">>, "MONTH_NAME", 6),
    Keyword(<<"j", "u", "l">>, "MONTH_NAME", 7), Keyword(<<"a", "u", "g">>, "MONTH_NAME", 8),
    Keyword(<<"s", "e", "p">>, "MONTH_NAME", 9), Keyword(<<"o", "c", "t">>, "MONTH_NAME", 10),
    Keyword(<<"n", "o", "v">>, "MONTH_NAME", 11), Keyword(<<"d", "e", "c">>, "MONTH_NAME", 12),
    Keyword(<<"a", "m", "">>, "AM_PM", 0), Keyword(<<"p", "m", "">>, "AM_PM", 12),
    Keyword(<<"u", "t", "">>, "TIME_ZONE_NAME", 0), Keyword(<<"u", "t", "c">>, "TIME_ZONE_NAME", 0),
    Keyword(<<"z", "", "">>, "TIME_ZONE_NAME", 0), Keyword(<<"g", "m", "t">>, "TIME_ZONE_NAME", 0),
    Keyword(<<"c", "d", "t">>, "TIME_ZONE_NAME", -5), Keyword(<<"c", "s", "t">>, "TIME_ZONE_NAME", -6),
    Keyword(<<"e", "d", "t">>, "TIME_ZONE_NAME", -4), Keyword(<<"e", "s", "t">>, "TIME_ZONE_NAME", -5),
    Keyword(<<"m", "d", "t">>, "TIME_ZONE_NAME", -6), Keyword(<<"m", "s", "t">>, "TIME_ZONE_NAME", -7),
    Keyword(<<"p", "d", "t">>, "TIME_ZONE_NAME", -7), Keyword(<<"p", "s", "t">>, "TIME_ZONE_NAME", -8),
    Keyword(<<"t", "", "">>, "TIME_SEPARATOR", 0)>>

\* KeywordTable::Lookup: a word longer than the prefix is a month name only
Lookup(prefix, len) ==
  LET hits == {n \in 1..Len(KeywordTable) :
                 /\ KeywordTable[n].w = prefix
                 /\ (len <= 3 \/ KeywordTable[n].kt = "MONTH_NAME")} IN
  IF hits = {} THEN Keyword(prefix, "INVALID", 0)
  ELSE KeywordTable[CHOOSE n \in hits : \A m \in hits : n <= m]

RECURSIVE ParenEnd(_, _, _)
\* InputReader::SkipParentheses from the "(" at n: the index after the
\* matching ")", or after the end
ParenEnd(s, n, balance) ==
  LET b == IF s[n] = ")" THEN balance - 1
           ELSE IF s[n] = "(" THEN balance + 1 ELSE balance IN
  IF b > 0 /\ n + 1 <= Len(s) THEN ParenEnd(s, n + 1, b) ELSE n + 1

\* DateStringTokenizer::Scan at index n: the token and the index after it
Scan(s, n) ==
  LET c == s[n] IN
  IF IsDigit(c)
  THEN LET e == SkipWhile(s, n, DigitSet)
           z == SkipWhile(s, n, {"0"})
           sig == SubSeq(s, z, e - 1) IN
       \* ReadUnsignedNumeral: the leading zeros are skipped and no more than
       \* nine digits make the number
       [tok |-> Tok("number", ValueOf(sig, IF Len(sig) < 9 THEN Len(sig) ELSE 9),
                    e - n, "", "", 0),
        next |-> e]
  ELSE IF c \in {":", "-", "+", ".", ")"}
  THEN [tok |-> Tok("symbol", 0, 1, c, "", 0), next |-> n + 1]
  ELSE IF c \notin BelowA /\ c \notin WhiteSpaceOnly
  THEN \* IsAsciiAlphaOrAbove and not IsWhiteSpace: a line terminator beyond
       \* ASCII is a character of a word
       LET e == SkipUntil(s, n, BelowA \cup WhiteSpaceOnly)
           prefix == [k \in 1..3 |-> IF n + k - 1 < e THEN ToLower(s[n + k - 1]) ELSE ""]
           kw == Lookup(prefix, e - n) IN
       [tok |-> Tok("keyword", 0, e - n, "", kw.kt, kw.kv), next |-> e]
  ELSE IF IsWhiteSpace(c)
  THEN \* SkipWhiteSpace: IsWhiteSpaceOrLineTerminator
       [tok |-> Tok("space", 0, 1, "", "", 0), next |-> n + 1]
  ELSE IF c = "("
  THEN [tok |-> Tok("unknown", 0, 0, "", "", 0), next |-> ParenEnd(s, n, 0)]
  ELSE [tok |-> Tok("unknown", 0, 0, "", "", 0), next |-> n + 1]

RECURSIVE Tokenize(_, _)
Tokenize(s, n) ==
  IF n > Len(s) THEN <<>>
  ELSE LET r == Scan(s, n) IN <<r.tok>> \o Tokenize(s, r.next)

IsNumber(t) == t.t = "number"

IsFixedNumber(t, len) == t.t = "number" /\ t.len = len

IsSymbol(t, c) == t.t = "symbol" /\ t.c = c

IsAsciiSign(t) == t.t = "symbol" /\ t.c \in {"+", "-"}

AsciiSign(t) == IF t.c = "-" THEN -1 ELSE 1

IsKeywordType(t, kt) == t.t = "keyword" /\ t.kt = kt

IsKeywordZ(t) == IsKeywordType(t, "TIME_ZONE_NAME") /\ t.len = 1

IsEndOfInput(t) == t.t = "end"

IsMonth(x) == x >= 1 /\ x <= 12

IsDay(x) == x >= 1 /\ x <= 31

IsHour(x) == x >= 0 /\ x <= 23

IsHour12(x) == x >= 0 /\ x <= 12

IsMinute(x) == x >= 0 /\ x <= 59

IsSecond(x) == x >= 0 /\ x <= 59

IsMillisecond(x) == x >= 0 /\ x <= 999

\* the token at index p of the token sequence T
Peek(T, p) == IF p <= Len(T) THEN T[p] ELSE EndTok

\* DateParser::ReadMilliseconds: the three leading digits of the fraction
ReadMilliseconds(t) ==
  IF t.len = 1 THEN t.n * 100
  ELSE IF t.len = 2 THEN t.n * 10
  ELSE IF t.len > 3
  THEN LET len == IF t.len > 9 THEN 9 ELSE t.len
           factor == 10 ^ (len - 3) IN
       t.n \div factor
  ELSE t.n

\* the composers of the parser: the numbers of the day, the named month,
\* the numbers of the time, the hour offset of AM/PM and the time zone
Composers(day, named, iso, time, hoff, tzs, tzh, tzm, has) ==
  [day |-> day, named |-> named, iso |-> iso, time |-> time, hoff |-> hoff,
   tzs |-> tzs, tzh |-> tzh, tzm |-> tzm, has |-> has]

NoComposers == Composers(<<>>, None, FALSE, <<>>, None, None, None, None, FALSE)

\* TimeComposer::IsExpecting
TimeIsExpecting(time, n) ==
  \/ Len(time) = 1 /\ IsMinute(n)
  \/ Len(time) = 2 /\ IsSecond(n)
  \/ Len(time) = 3 /\ IsMillisecond(n)

\* TimeComposer::AddFinal
TimeAddFinal(time, n) ==
  IF Len(time) >= 4 THEN time
  ELSE Append(time, n) \o [k \in 1..(3 - Len(time)) |-> 0]

\* TimeZoneComposer::IsExpecting
TzIsExpecting(st, n) == st.tzh # None /\ st.tzm = None /\ IsMinute(n)

\* the outcome of ParseES5DateTime: the parse is invalid, or the legacy
\* parser goes on from the token at pos
ES5Result(invalid, pos, st) == [invalid |-> invalid, pos |-> pos, st |-> st]

\* the time zone of an ES5 date-time string, its first token at p
ES5TimeZone(T, p, st) ==
  IF IsKeywordZ(Peek(T, p))
  THEN ES5Result(FALSE, p + 1, [st EXCEPT !.tzs = 1, !.tzh = 0, !.tzm = 0])
  ELSE IF IsAsciiSign(Peek(T, p))
  THEN LET sign == AsciiSign(T[p])
           t == Peek(T, p + 1) IN
       IF IsFixedNumber(t, 4)
       THEN IF IsHour(t.n \div 100) /\ IsMinute(t.n % 100)
            THEN ES5Result(FALSE, p + 2,
                           [st EXCEPT !.tzs = sign, !.tzh = t.n \div 100, !.tzm = t.n % 100])
            ELSE ES5Result(TRUE, p, st)
       ELSE IF /\ IsFixedNumber(t, 2) /\ IsHour(t.n)
               /\ IsSymbol(Peek(T, p + 2), ":")
               /\ IsFixedNumber(Peek(T, p + 3), 2) /\ IsMinute(Peek(T, p + 3).n)
            THEN ES5Result(FALSE, p + 4,
                           [st EXCEPT !.tzs = sign, !.tzh = t.n, !.tzm = T[p + 3].n])
            ELSE ES5Result(TRUE, p, st)
  ELSE ES5Result(FALSE, p, st)

\* the time of an ES5 date-time string, its first token (after "T") at p
ES5Time(T, p, st) ==
  LET hh == Peek(T, p)
      mm == Peek(T, p + 2)
      ss == Peek(T, p + 4)
      ms == Peek(T, p + 6)
      hour_is_24 == hh.n = 24 IN
  IF ~(IsFixedNumber(hh, 2) /\ hh.n >= 0 /\ hh.n <= 24) THEN ES5Result(TRUE, p, st)
  ELSE IF ~IsSymbol(Peek(T, p + 1), ":") THEN ES5Result(TRUE, p, st)
  ELSE IF ~(IsFixedNumber(mm, 2) /\ IsMinute(mm.n) /\ ~(hour_is_24 /\ mm.n > 0))
  THEN ES5Result(TRUE, p, st)
  ELSE IF ~IsSymbol(Peek(T, p + 3), ":")
  THEN ES5TimeZone(T, p + 3, [st EXCEPT !.time = <<hh.n, mm.n>>])
  ELSE IF ~(IsFixedNumber(ss, 2) /\ IsSecond(ss.n) /\ ~(hour_is_24 /\ ss.n > 0))
  THEN ES5Result(TRUE, p, st)
  ELSE IF ~IsSymbol(Peek(T, p + 5), ".")
  THEN ES5TimeZone(T, p + 5, [st EXCEPT !.time = <<hh.n, mm.n, ss.n>>])
  ELSE IF ~(IsNumber(ms) /\ ~(hour_is_24 /\ ms.n > 0)) THEN ES5Result(TRUE, p, st)
  ELSE ES5TimeZone(T, p + 7,
                   [st EXCEPT !.time = <<hh.n, mm.n, ss.n, ReadMilliseconds(ms)>>])

\* what follows the date of an ES5 date-time string: the end, or "T" and a
\* time with nothing after it
ES5AfterDate(T, p, st) ==
  IF ~IsKeywordType(Peek(T, p), "TIME_SEPARATOR")
  THEN IF ~IsEndOfInput(Peek(T, p)) THEN ES5Result(FALSE, p, st)
       ELSE \* a date-only form is a UTC time
            ES5Result(FALSE, p, [st EXCEPT !.tzs = 1, !.tzh = 0, !.tzm = 0, !.iso = TRUE])
  ELSE LET r == ES5Time(T, p + 1, st) IN
       IF r.invalid \/ ~IsEndOfInput(Peek(T, r.pos)) THEN ES5Result(TRUE, p, st)
       ELSE ES5Result(FALSE, r.pos, [r.st EXCEPT !.iso = TRUE])

\* the month and the day of an ES5 date-time string, after the year
ES5MonthDay(T, p, st) ==
  IF ~IsSymbol(Peek(T, p), "-") THEN ES5AfterDate(T, p, st)
  ELSE LET mm == Peek(T, p + 1) IN
       IF ~(IsFixedNumber(mm, 2) /\ IsMonth(mm.n)) THEN ES5Result(FALSE, p + 1, st)
       ELSE LET st1 == [st EXCEPT !.day = Append(@, mm.n)] IN
            IF ~IsSymbol(Peek(T, p + 2), "-") THEN ES5AfterDate(T, p + 2, st1)
            ELSE LET dd == Peek(T, p + 3) IN
                 IF ~(IsFixedNumber(dd, 2) /\ IsDay(dd.n)) THEN ES5Result(FALSE, p + 3, st1)
                 ELSE ES5AfterDate(T, p + 4, [st1 EXCEPT !.day = Append(@, dd.n)])

\* DateParser::ParseES5DateTime
ParseES5DateTime(T) ==
  IF IsAsciiSign(Peek(T, 1))
  THEN IF ~IsFixedNumber(Peek(T, 2), 6)
       THEN \* the sign goes to the legacy parser
            ES5Result(FALSE, 1, NoComposers)
       ELSE IF AsciiSign(T[1]) < 0 /\ T[2].n = 0
       THEN \* a year -000000: an unknown token, the sign and the year are read
            ES5Result(FALSE, 3, NoComposers)
       ELSE ES5MonthDay(T, 3, [NoComposers EXCEPT !.day = <<AsciiSign(T[1]) * T[2].n>>])
  ELSE IF IsFixedNumber(Peek(T, 1), 4)
  THEN ES5MonthDay(T, 2, [NoComposers EXCEPT !.day = <<T[1].n>>])
  ELSE ES5Result(FALSE, 1, NoComposers)

Failed == [NoComposers EXCEPT !.named = -2]

RECURSIVE Legacy(_, _, _)
\* the loop of DateParser::Parse over the tokens from index p on: the
\* composers at the end of the input, or Failed
Legacy(T, p, st) ==
  IF p > Len(T) THEN st
  ELSE
  LET token == T[p]
      q == p + 1 IN
  IF IsNumber(token)
  THEN LET n == token.n
           st1 == [st EXCEPT !.has = TRUE]
           \* a "." after the number is skipped whatever follows
           dot == IsSymbol(Peek(T, q), ".")
           r == IF dot THEN q + 1 ELSE q IN
       IF IsSymbol(Peek(T, q), ":")
       THEN IF IsSymbol(Peek(T, q + 1), ":")
            THEN IF st.time # <<>> THEN Failed
                 ELSE Legacy(T, q + 2, [st1 EXCEPT !.time = <<n, 0>>])
            ELSE IF Len(st.time) >= 4 THEN Failed
                 ELSE Legacy(T, IF IsSymbol(Peek(T, q + 1), ".") THEN q + 2 ELSE q + 1,
                             [st1 EXCEPT !.time = Append(@, n)])
       ELSE IF dot /\ TimeIsExpecting(st.time, n)
       THEN IF ~IsNumber(Peek(T, r)) THEN Failed
            ELSE Legacy(T, r + 1,
                        [st1 EXCEPT !.time = TimeAddFinal(Append(st.time, n),
                                                          ReadMilliseconds(T[r]))])
       ELSE IF TzIsExpecting(st, n)
       THEN Legacy(T, r, [st1 EXCEPT !.tzm = n])
       ELSE IF TimeIsExpecting(st.time, n)
       THEN LET peek == Peek(T, r) IN
            IF ~(IsEndOfInput(peek) \/ peek.t = "space" \/ IsKeywordZ(peek) \/ IsAsciiSign(peek))
            THEN Failed
            ELSE Legacy(T, r, [st1 EXCEPT !.time = TimeAddFinal(st.time, n)])
       ELSE IF Len(st.day) >= 3 THEN Failed
       ELSE Legacy(T, IF IsSymbol(Peek(T, r), "-") THEN r + 1 ELSE r,
                   [st1 EXCEPT !.day = Append(@, n)])
  ELSE IF token.t = "keyword"
  THEN IF token.kt = "AM_PM" /\ st.time # <<>>
       THEN Legacy(T, q, [st EXCEPT !.hoff = token.kv])
       ELSE IF token.kt = "MONTH_NAME"
       THEN Legacy(T, IF IsSymbol(Peek(T, q), "-") THEN q + 1 ELSE q,
                   [st EXCEPT !.named = token.kv])
       ELSE IF token.kt = "TIME_ZONE_NAME" /\ st.has
       THEN Legacy(T, q, [st EXCEPT !.tzs = IF token.kv < 0 THEN -1 ELSE 1,
                                    !.tzh = IF token.kv < 0 THEN -token.kv ELSE token.kv,
                                    !.tzm = 0])
       ELSE \* a garbage word: not after a number, nor right before one
            IF st.has \/ IsNumber(Peek(T, q)) THEN Failed
            ELSE Legacy(T, q, st)
  ELSE IF IsAsciiSign(token) /\ ((st.tzh = 0 /\ st.tzm = 0) \/ st.time # <<>>)
  THEN LET num == IsNumber(Peek(T, q))
           n == IF num THEN T[q].n ELSE 0
           length == IF num THEN T[q].len ELSE 0
           r == IF num THEN q + 1 ELSE q
           st1 == [st EXCEPT !.tzs = AsciiSign(token), !.has = TRUE] IN
       IF IsSymbol(Peek(T, r), ":")
       THEN Legacy(T, r, [st1 EXCEPT !.tzh = n, !.tzm = None])
       ELSE IF length \in {1, 2}
       THEN Legacy(T, r, [st1 EXCEPT !.tzh = n, !.tzm = 0])
       ELSE IF length \in {3, 4}
       THEN Legacy(T, r, [st1 EXCEPT !.tzh = n \div 100, !.tzm = n % 100])
       ELSE Failed
  ELSE IF (IsAsciiSign(token) \/ IsSymbol(token, ")")) /\ st.has
  THEN Failed
  ELSE Legacy(T, q, st)

\* DayComposer::Write: year, month and day of the numbers read, or <<>>
DayWrite(st) ==
  IF st.day = <<>> THEN <<>>
  ELSE
  LET comp == [k \in 1..3 |-> IF k <= Len(st.day) THEN st.day[k] ELSE 1]
      ymd == IF st.named = None
             THEN IF st.iso \/ ~IsDay(comp[1])
                  THEN <<comp[1], comp[2], comp[3]>>
                  ELSE <<comp[3], comp[1], comp[2]>>
             ELSE IF ~IsDay(comp[1])
                  THEN <<comp[1], st.named, comp[2]>>
                  ELSE <<comp[2], st.named, comp[1]>>
      year == IF st.iso THEN ymd[1]
              ELSE IF ymd[1] >= 0 /\ ymd[1] <= 49 THEN ymd[1] + 2000
              ELSE IF ymd[1] >= 50 /\ ymd[1] <= 99 THEN ymd[1] + 1900
              ELSE ymd[1] IN
  IF ~IsMonth(ymd[2]) \/ ~IsDay(ymd[3]) THEN <<>>
  ELSE <<year, ymd[2], ymd[3]>>

\* TimeComposer::Write: the milliseconds of the day, or None
TimeWrite(st) ==
  LET comp == [k \in 1..4 |-> IF k <= Len(st.time) THEN st.time[k] ELSE 0]
      hour == IF st.hoff = None THEN comp[1] ELSE (comp[1] % 12) + st.hoff IN
  IF st.hoff # None /\ ~IsHour12(comp[1]) THEN None
  ELSE IF /\ ~(IsHour(hour) /\ IsMinute(comp[2]) /\ IsSecond(comp[3]) /\ IsMillisecond(comp[4]))
          /\ (hour # 24 \/ comp[2] # 0 \/ comp[3] # 0 \/ comp[4] # 0)
  THEN None
  ELSE ((hour * 60 + comp[2]) * 60 + comp[3]) * 1000 + comp[4]

\* hour * 3600 + minute * 60 as the 32-bit unsigned number that
\* TimeZoneComposer::Write computes, divided by 4 (the sum is a multiple of
\* 60): 900 * hour + 15 * minute modulo 2^30, the product taken in two
\* halves of the hour
TzSeconds4(hour, minute) ==
  ((((900 * (hour \div 32768)) % 32768) * 32768) + 900 * (hour % 32768) + 15 * minute)
    % 1073741824

\* TimeZoneComposer::Write fails when the unsigned sum is above
\* Smi::kMaxValue (2^31 - 1 on a build of 32-bit small integers)
TzFits(st) ==
  \/ st.tzs = None
  \/ TzSeconds4(IF st.tzh = None THEN 0 ELSE st.tzh,
                IF st.tzm = None THEN 0 ELSE st.tzm) < 536870912

\* TimeZoneComposer::Write: the offset in seconds of a string that names
\* its zone, as whole days and seconds of a day
TzWrite(st) ==
  LET s == 4 * TzSeconds4(IF st.tzh = None THEN 0 ELSE st.tzh,
                          IF st.tzm = None THEN 0 ELSE st.tzm) IN
  IF st.tzs < 0 THEN [d |-> -(s \div 86400), s |-> -(s % 86400)]
  ELSE [d |-> s \div 86400, s |-> s % 86400]

\* the offset of the time zone of the host, local seconds east of UTC:
\* a zone of a fixed offset
LocalOffset(local) == [d |-> 0, s |-> local]

DayFromMonth == <<0, 31, 59, 90, 120, 151, 181, 212, 243, 273, 304, 334>>

DayFromMonthLeap == <<0, 31, 60, 91, 121, 152, 182, 213, 244, 274, 305, 335>>

YearDelta == 399999

DayFromYear(y) ==
  LET y1 == y + YearDelta IN
  365 * y1 + (y1 \div 4) - (y1 \div 100) + (y1 \div 400)

\* MakeDay: the days from the epoch to the day of a year (beyond a year
\* 399999 from year 0 the day is out of the time range)
MakeDay(year, month, day) ==
  DayFromYear(year) - DayFromYear(1970)
    + (IF (year % 4 # 0) \/ (year % 100 = 0 /\ year % 400 # 0)
       THEN DayFromMonth[month] ELSE DayFromMonthLeap[month])
    + day - 1

\* MakeDate, less the offset of the zone
MakeDate(day, time, offset) == TimeClip(Time(day - offset.d, time - 1000 * offset.s))

\* the time value of the composers st, with the day ymd and the time of
\* day that they hold; a string that names no zone is a local time
DateOfParts(st, ymd, time, local) ==
  IF st = Failed \/ ymd = <<>> \/ time = None \/ ~TzFits(st) THEN NaN
  ELSE IF ymd[1] <= -YearDelta \/ ymd[1] > YearDelta THEN NaN
  ELSE MakeDate(MakeDay(ymd[1], ymd[2], ymd[3]), time,
                IF st.tzs = None THEN LocalOffset(local) ELSE TzWrite(st))

DateOfComposers(st, local) == DateOfParts(st, DayWrite(st), TimeWrite(st), local)

\* the legacy parser goes on where the ES5 parser stopped
DateAfterES5(T, es5, local) ==
  DateOfComposers(IF es5.invalid THEN Failed
                  ELSE Legacy(T, es5.pos, [es5.st EXCEPT !.has = es5.st.day # <<>>]),
                  local)

DateOfTokens(T, local) == DateAfterES5(T, ParseES5DateTime(T), local)

\* Date.parse on a host of which the zone is local seconds east of UTC:
\* a NUL character ends the string
DateParse(str, local) ==
  DateOfTokens(Tokenize(SubSeq(str, 1, SkipUntil(str, 1, {"U+0000"}) - 1), 1), local)
----------------------------------------------------------------------------
(* JavaScript values.  A string holds its characters in val; a number, a   *)
(* boolean, null and undefined hold in val the text ToString gives them    *)
(* (a number is known by the text Number::toString gives the double).  An  *)
(* object holds its own enumerable properties in props, in the order of    *)
(* Object.keys, and in proto the prototype it was given (none: the         *)
(* prototype of its kind); an array holds its length in val and its        *)
(* elements among its properties, under their indices.  A built-in object  *)
(* or function is known by its code (and a function by its name in val):   *)
(* what was assigned to it is kept in the realm, see below.                *)

JSVal(kind, code, val, props, proto) ==
  [kind |-> kind, code |-> code, val |-> val, props |-> props, proto |-> proto]

\* undefined: what `return;` and a missing property give
JSUndefined == JSVal("undefined", "", <<"u", "n", "d", "e", "f", "i", "n", "e", "d">>, <<>>, <<>>)

JSNull == JSVal("null", "", <<"n", "u", "l", "l">>, <<>>, <<>>)

JSTrue == JSVal("boolean", "", <<"t", "r", "u", "e">>, <<>>, <<>>)

JSFalse == JSVal("boolean", "", <<"f", "a", "l", "s", "e">>, <<>>, <<>>)

JSString(val) == JSVal("string", "", val, <<>>, <<>>)

JSNumber(text) == JSVal("number", "", text, <<>>, <<>>)

JSObject(props) == JSVal("object", "", <<>>, props, <<>>)

\* a rejected promise or a thrown error: the code of a file-system error,
\* the name of an error of the language
JSThrow(code) == JSVal("throw", code, <<>>, <<>>, <<>>)

IsThrow(v) == v.kind = "throw"

Prop(name, v) == [name |-> name, v |-> v]

\* the elements of an array literal as properties
IndexProps(items) == [n \in 1..Len(items) |-> Prop(DigitsOf(n - 1), items[n])]

\* the array of the elements items, with the named properties props
JSArray(items, props) ==
  JSVal("array", "", DigitsOf(Len(items)), IndexProps(items) \o props, <<>>)

Zero == <<"0">>

NaNText == <<"N", "a", "N">>

\* !v
Falsy(v) ==
  \/ v.kind \in {"undefined", "null"}
  \/ v = JSFalse
  \/ v.kind = "string" /\ v.val = <<>>
  \/ v.kind = "number" /\ v.val \in {Zero, NaNText}

\* a < b on the decimal texts of two natural numbers without leading zeros
DigitsLess(a, b) ==
  \/ Len(a) < Len(b)
  \/ /\ Len(a) = Len(b)
     /\ \E k \in 1..Len(a) :
          /\ DigitVal(a[k]) < DigitVal(b[k])
          /\ \A j \in 1..(k - 1) : a[j] = b[j]

\* the text of a natural number without leading zeros
IsCanonicalNat(name) ==
  /\ name # <<>>
  /\ \A k \in 1..Len(name) : IsDigit(name[k])
  /\ (name[1] # "0" \/ Len(name) = 1)

\* an array index: the canonical text of an integer of 0..2^32-2
IsArrayIndex(name) ==
  /\ IsCanonicalNat(name)
  /\ DigitsLess(name, <<"4", "2", "9", "4", "9", "6", "7", "2", "9", "5">>)

IndexOf(seq, name) ==
  IF \E n \in 1..Len(seq) : seq[n].name = name
  THEN CHOOSE n \in 1..Len(seq) : seq[n].name = name
  ELSE 0

HasProp(seq, name) == IndexOf(seq, name) # 0

InsertAt(seq, n, e) == SubSeq(seq, 1, n - 1) \o <<e>> \o SubSeq(seq, n, Len(seq))

RemoveAt(seq, n) == SubSeq(seq, 1, n - 1) \o SubSeq(seq, n + 1, Len(seq))

\* o[name] = v on the properties of an ordinary object: an existing
\* property keeps its place; a new one is last, but for an array index,
\* which stands before the names and among the indices in ascending order
SetProp(seq, name, v) ==
  IF HasProp(seq, name)
  THEN [seq EXCEPT ![IndexOf(seq, name)] = Prop(name, v)]
  ELSE IF IsArrayIndex(name)
  THEN InsertAt(seq,
                CHOOSE n \in 1..(Len(seq) + 1) :
                  /\ \A m \in 1..(n - 1) :
                       IsArrayIndex(seq[m].name) /\ DigitsLess(seq[m].name, name)
                  /\ n = Len(seq) + 1 \/ ~IsArrayIndex(seq[n].name)
                       \/ DigitsLess(name, seq[n].name),
                Prop(name, v))
  ELSE Append(seq, Prop(name, v))

\* delete o[name]
DeleteProp(seq, name) ==
  IF HasProp(seq, name) THEN RemoveAt(seq, IndexOf(seq, name)) ELSE seq

\* n zeros
Zeros(n) == [k \in 1..n |-> "0"]

\* Number::toString of the number 0.d1d2...dk * 10^n, the digits without
\* leading and trailing zeros
NumberToString(neg, digits, n) ==
  LET k == Len(digits)
      e == n - 1
      text ==
        IF k = 0 THEN Zero
        ELSE IF k <= n /\ n <= 21 THEN digits \o Zeros(n - k)
        ELSE IF 0 < n /\ n <= 21
        THEN SubSeq(digits, 1, n) \o <<".">> \o SubSeq(digits, n + 1, k)
        ELSE IF -6 < n /\ n <= 0 THEN <<"0", ".">> \o Zeros(-n) \o digits
        ELSE (IF k = 1 THEN digits ELSE <<digits[1], ".">> \o SubSeq(digits, 2, k))
               \o <<"e", IF e < 0 THEN "-" ELSE "+">> \o DigitsOf(IF e < 0 THEN -e ELSE e) IN
  IF neg /\ k # 0 THEN <<"-">> \o text ELSE text

----------------------------------------------------------------------------
(* Natural numbers of any size, as the sequence of their decimal digits    *)
(* (the first digit is not 0; the empty sequence is zero): the arithmetic  *)
(* that reads a decimal literal as a double and writes a double as the     *)
(* shortest decimal text that reads back as it.                            *)

BigOf(chars) ==
  LET z == SkipWhile(chars, 1, {"0"}) IN
  [n \in 1..(Len(chars) - z + 1) |-> DigitVal(chars[z + n - 1])]

BigChars(a) == [n \in 1..Len(a) |-> Digit(a[n])]

BigNorm(a) ==
  IF \A n \in 1..Len(a) : a[n] = 0 THEN <<>>
  ELSE SubSeq(a, CHOOSE n \in 1..Len(a) : a[n] # 0 /\ \A m \in 1..(n - 1) : a[m] = 0, Len(a))

\* a < b
BigLess(a, b) ==
  \/ Len(a) < Len(b)
  \/ /\ Len(a) = Len(b)
     /\ \E k \in 1..Len(a) : a[k] < b[k] /\ \A j \in 1..(k - 1) : a[j] = b[j]

\* the digit of a at the place of 10^i, i from 0
BigAt(a, i) == IF i >= 0 /\ i < Len(a) THEN a[Len(a) - i] ELSE 0

\* 2 * a: the carry into a place comes from the place below alone
BigDouble(a) ==
  BigNorm([n \in 1..(Len(a) + 1) |->
             ((2 * BigAt(a, Len(a) + 1 - n)) % 10)
               + (IF BigAt(a, Len(a) - n) >= 5 THEN 1 ELSE 0)])

\* a \div 2
BigHalf(a) ==
  BigNorm([n \in 1..Len(a) |->
             (a[n] \div 2) + (IF n > 1 /\ a[n - 1] % 2 = 1 THEN 5 ELSE 0)])

BigIsOdd(a) == a # <<>> /\ a[Len(a)] % 2 = 1

RECURSIVE CarryInto(_, _, _)
\* a + b carries into the place of 10^i
CarryInto(a, b, i) ==
  /\ i > 0
  /\ \/ BigAt(a, i - 1) + BigAt(b, i - 1) >= 10
     \/ BigAt(a, i - 1) + BigAt(b, i - 1) = 9 /\ CarryInto(a, b, i - 1)

\* a + b
BigAdd(a, b) ==
  LET n == (IF Len(a) > Len(b) THEN Len(a) ELSE Len(b)) + 1 IN
  BigNorm([m \in 1..n |->
             (BigAt(a, n - m) + BigAt(b, n - m) + (IF CarryInto(a, b, n - m) THEN 1 ELSE 0))
               % 10])

RECURSIVE BorrowFrom(_, _, _)
\* a - b borrows from the place of 10^i
BorrowFrom(a, b, i) ==
  /\ i > 0
  /\ \/ BigAt(a, i - 1) < BigAt(b, i - 1)
     \/ BigAt(a, i - 1) = BigAt(b, i - 1) /\ BorrowFrom(a, b, i - 1)

\* a - b, for b <= a
BigSub(a, b) ==
  BigNorm([m \in 1..Len(a) |->
             (BigAt(a, Len(a) - m) - BigAt(b, Len(a) - m)
                - (IF BorrowFrom(a, b, Len(a) - m) THEN 1 ELSE 0) + 10) % 10])

\* a * 10^n
BigTimesTen(a, n) == IF a = <<>> \/ n <= 0 THEN a ELSE a \o [k \in 1..n |-> 0]

BigTimes10(a) == BigTimesTen(a, 1)

RECURSIVE Doublings(_, _, _)
\* a * 2^n by doublings, sixteen at a time (unit = 16), and sixteen times
\* sixteen at a time (unit = 256)
Doublings(a, n, unit) ==
  IF n <= 0 \/ a = <<>> THEN a
  ELSE IF unit = 1 THEN Doublings(BigDouble(a), n - 1, 1)
  ELSE IF n < unit THEN Doublings(a, n, unit \div 16)
  ELSE Doublings(Doublings(a, unit, unit \div 16), n - unit, unit)

\* a * 2^n
BigShift(a, n) == Doublings(a, n, 256)

\* the numbers bases[i] * 2^exps[i]
BigShifts(bases, exps) == [i \in 1..Len(bases) |-> BigShift(bases[i], exps[i])]

RECURSIVE BigQuotient(_, _, _)
\* r \div s and r % s by subtraction, for r < 10 * s
BigQuotient(r, s, d) ==
  IF BigLess(r, s) THEN [d |-> d, r |-> r] ELSE BigQuotient(BigSub(r, s), s, d + 1)

\* 2^53, of which the double has the bits
TwoTo53 == <<9, 0, 0, 7, 1, 9, 9, 2, 5, 4, 7, 4, 0, 9, 9, 2>>

TwoTo52 == BigHalf(TwoTo53)

\* the double of significand m (below 2^53) and exponent e: m * 2^e
Double(m, e) == [m |-> m, e |-> e]

\* the exponent of the least double, 2^-1074
MinExponent == -1074

\* the exponent of the greatest doubles, (2^53 - 1) * 2^971
MaxExponent == 971

\* the number num / t * 2^(53 + e)
Scaling(num, t, e) == [num |-> num, t |-> t, e |-> e]

RECURSIVE ScaleDown(_, _, _)
\* with t doubled until num < t, or the exponent is beyond the greatest
ScaleDown(num, t, e) ==
  IF e > MaxExponent \/ BigLess(num, t) THEN Scaling(num, t, e)
  ELSE ScaleDown(num, BigDouble(t), e + 1)

RECURSIVE ScaleUp(_, _, _)
RECURSIVE ScaleUpTo(_, _, _, _)
\* with num doubled until t <= 2 * num, or the exponent is the least
ScaleUp(num, t, e) == ScaleUpTo(num, t, e, BigDouble(num))

ScaleUpTo(num, t, e, doubled) ==
  IF e <= MinExponent \/ ~BigLess(doubled, t) THEN Scaling(num, t, e)
  ELSE ScaleUp(doubled, t, e - 1)

\* a number of doublings that a number of n more decimal digits than
\* another is sure to stand: 2^(3321 / 1000) is less than 10
DoublingsIn(n) == IF n <= 1 THEN 0 ELSE ((n - 1) * 3321) \div 1000

\* the scaling of num / t * 2^53 from which the bits are taken: the
\* doublings that the lengths of num and t make sure of are made at once
\* the doublings made at once of t (down) or of num: no more of num than
\* lead to the least exponent
DoublingsAtOnce(num, t, down) ==
  IF down THEN DoublingsIn(Len(num) - Len(t))
  ELSE IF DoublingsIn(Len(t) - Len(num)) >= -MinExponent THEN -MinExponent
  ELSE DoublingsIn(Len(t) - Len(num))

\* the scaling after n doublings at once, which made `shifted` of t (down)
\* or of num
ScaledFrom(num, t, down, n, shifted) ==
  IF down THEN ScaleDown(num, shifted, n) ELSE ScaleUp(shifted, t, -n)

ScaledBy(num, t, down, n) ==
  IF down /\ n > MaxExponent THEN Scaling(num, t, MaxExponent + 1)
  ELSE ScaledFrom(num, t, down, n, BigShift(IF down THEN t ELSE num, n))

ScaledTo(num, t, down) == ScaledBy(num, t, down, DoublingsAtOnce(num, t, down))

Scaled(num, t) == ScaledTo(num, t, ~BigLess(num, t))

\* the bits m so far and what is left, x, of the number
Bits(m, x) == [m |-> m, x |-> x]

RECURSIVE BitsOf(_, _, _, _)
RECURSIVE NextBit(_, _, _, _)
\* n more bits of x * 2^n \div t, for x < t, after the bits m
BitsOf(x, t, m, n) ==
  IF n = 0 THEN Bits(m, x) ELSE NextBit(BigDouble(x), t, BigDouble(m), n)

\* the bit that the doubled x and the doubled bits m take
NextBit(x, t, m, n) ==
  IF BigLess(x, t) THEN BitsOf(x, t, m, n - 1)
  ELSE BitsOf(BigSub(x, t), t, BigAdd(m, <<1>>), n - 1)

RECURSIVE BitBlocks(_, _, _)
\* the bits of x * 2^53 \div t: n blocks of eight bits after the five
\* bits b
BitBlocks(b, t, n) ==
  IF n = 0 \/ (b.x = <<>> /\ b.m = <<>>) THEN b
  ELSE BitBlocks(BitsOf(b.x, t, b.m, 8), t, n - 1)

\* the quotient rounded to the nearest, to the even one of two as near
RoundedUp(m, e) == IF m = TwoTo53 THEN Double(TwoTo52, e + 1) ELSE Double(m, e)

\* the bits b.m rounded by what is left, of which `doubled` is the double
RoundBy(b, t, e, doubled) ==
  IF ~(BigLess(t, doubled) \/ (doubled = t /\ BigIsOdd(b.m))) THEN Double(b.m, e)
  ELSE RoundedUp(BigAdd(b.m, <<1>>), e)

RoundBits(b, t, e) == RoundBy(b, t, e, BigDouble(b.x))

BitsOfScaled(s) == RoundBits(BitBlocks(BitsOf(s.num, s.t, <<>>, 5), s.t, 6), s.t, s.e)

\* the double nearest to num / den
NearestDouble(num, den) == BitsOfScaled(Scaled(num, BigShift(den, 53)))

\* the state of the digit generation: the value left is r / s, the
\* distances to the neighbouring doubles are mp / s above and mm / s below
Generation(r, s, mp, mm, k) == [r |-> r, s |-> s, mp |-> mp, mm |-> mm, k |-> k]

\* the double d as r / s, with its distances to the middles of the
\* neighbouring doubles
GenerationOf(p) == Generation(p[1], p[2], p[3], p[4], 0)

\* r = m * 2^(up + 1 + c), s = 2^(down + 1 + c), mp = 2^(up + c) and
\* mm = 2^up, where the exponent of the double is up - down and c is 1
\* when the double below is closer than the double above
DigitsFrom(m, up, down, c) ==
  GenerationOf(BigShifts(<<m, <<1>>, <<1>>, <<1>>>>, <<up + 1 + c, down + 1 + c, up + c, up>>))

DigitsStart(d) ==
  DigitsFrom(d.m, IF d.e >= 0 THEN d.e ELSE 0, IF d.e >= 0 THEN 0 ELSE -d.e,
             IF d.m = TwoTo52 /\ d.e > MinExponent THEN 1 ELSE 0)

\* r + mp >= s when the bound is of the interval (an even significand),
\* r + mp > s when it is not
NotBelow(high, s, even) == IF even THEN ~BigLess(high, s) ELSE BigLess(s, high)

AboveHigh(r, mp, s, even) == NotBelow(BigAdd(r, mp), s, even)

RECURSIVE PowerUp(_, _)
\* s times ten until the number is below 1
PowerUp(g, even) ==
  IF AboveHigh(g.r, g.mp, g.s, even)
  THEN PowerUp([g EXCEPT !.s = BigTimes10(@), !.k = @ + 1], even)
  ELSE g

RECURSIVE PowerDown(_, _)
\* the number times ten while it stays below 1
PowerDown(g, even) ==
  IF AboveHigh(BigTimes10(g.r), BigTimes10(g.mp), g.s, even) THEN g
  ELSE PowerDown([g EXCEPT !.r = BigTimes10(@), !.mp = BigTimes10(@), !.mm = BigTimes10(@),
                           !.k = @ - 1], even)

\* the powers of ten that the lengths of r + mp and s make sure of, made
\* at once: n is the length of r + mp less the length of s
PowerJump(g, n) ==
  IF n > 0 THEN [g EXCEPT !.s = BigTimesTen(@, n), !.k = @ + n]
  ELSE IF n < -1
  THEN [g EXCEPT !.r = BigTimesTen(@, -n - 1), !.mp = BigTimesTen(@, -n - 1),
                 !.mm = BigTimesTen(@, -n - 1), !.k = @ + n + 1]
  ELSE g

\* the generation with the power of ten of the first digit
Powered(g, even) ==
  PowerDown(PowerUp(PowerJump(g, Len(BigAdd(g.r, g.mp)) - Len(g.s)), even), even)

\* the last digit: what is left is within the distance of a neighbour
\* below (low) or above (high); within both, the nearer digit is taken
NearerDigit(q, s, doubled) ==
  IF BigLess(doubled, s) \/ (doubled = s /\ q.d % 2 = 0) THEN q.d ELSE q.d + 1

LastDigit(q, s, low, high) ==
  IF low /\ ~high THEN q.d
  ELSE IF high /\ ~low THEN q.d + 1
  ELSE NearerDigit(q, s, BigDouble(q.r))

RECURSIVE Generate(_, _, _)
RECURSIVE GenerateDigit(_, _, _, _)
RECURSIVE DigitWithin(_, _, _, _, _, _)

\* the digit q.d of the generation g, q.r being what is left after it
GenerateDigit(g, even, acc, q) ==
  DigitWithin(g, even, acc, q, NotBelow(g.mm, q.r, even), AboveHigh(q.r, g.mp, g.s, even))

\* low: what is left is within the distance of the neighbour below; high:
\* within the distance of the neighbour above
DigitWithin(g, even, acc, q, low, high) ==
  IF ~low /\ ~high THEN Generate([g EXCEPT !.r = q.r], even, Append(acc, q.d))
  ELSE Append(acc, LastDigit(q, g.s, low, high))

\* the shortest digits: a digit is the last one when what is left is
\* within the distance of a neighbour
Generate(g, even, acc) ==
  GenerateDigit([g EXCEPT !.mp = BigTimes10(@), !.mm = BigTimes10(@)], even, acc,
                BigQuotient(BigTimes10(g.r), g.s, 0))

ShortestOf(g, even) == [digits |-> Generate(g, even, <<>>), k |-> g.k]

\* the shortest decimal digits that read back as the double d, and the
\* power of ten of which they are the fraction
Shortest(d) == ShortestOf(Powered(DigitsStart(d), ~BigIsOdd(d.m)), ~BigIsOdd(d.m))

Infinity == <<"I", "n", "f", "i", "n", "i", "t", "y">>

\* the text of the shortest digits
TextOfShortest(neg, s) == JSNumber(NumberToString(neg, BigChars(s.digits), s.k))

\* the text of the double d
TextOfDouble(neg, d) ==
  IF d.m = <<>> THEN JSNumber(Zero)
  ELSE IF d.e > MaxExponent THEN JSNumber((IF neg THEN <<"-">> ELSE <<>>) \o Infinity)
  ELSE TextOfShortest(neg, Shortest(d))

\* the digits of a text without the zeros at its end
StripZeros(s) ==
  IF \A k \in 1..Len(s) : s[k] = "0" THEN <<>>
  ELSE SubSeq(s, 1, CHOOSE k \in 1..Len(s) : s[k] # "0" /\ \A j \in (k + 1)..Len(s) : s[j] = "0")

\* the number of the digits tail (the first is not 0) times 10^(n - Len(tail)):
\* a number of no more than fifteen digits in the range of the normal doubles
\* is written as it is read, any other is rounded to the nearest double
NumberOfDigits(neg, tail, n) ==
  IF StripZeros(tail) = <<>> \/ n < -323 THEN JSNumber(Zero)
  ELSE IF n > 309 THEN JSNumber((IF neg THEN <<"-">> ELSE <<>>) \o Infinity)
  ELSE IF Len(StripZeros(tail)) <= 15 /\ n >= -306 /\ n <= 308
  THEN JSNumber(NumberToString(neg, StripZeros(tail), n))
  ELSE TextOfDouble(neg,
                    NearestDouble(BigOf(tail \o Zeros(n - Len(tail))),
                                  BigOf(<<"1">> \o Zeros(Len(tail) - n))))

\* the number of a decimal literal: its integer digits, its fraction digits
\* and its exponent
NumberOf(neg, int, frac, exp) ==
  LET all == int \o frac
      z == SkipWhile(all, 1, {"0"}) - 1 IN
  NumberOfDigits(neg, SubSeq(all, z + 1, Len(all)), Len(int) - z + exp)

\* the exponent of a literal, its digits from a to b - 1: beyond five
\* digits the number is zero or infinite whatever the exponent
ExponentOf(s, a, b) ==
  LET z == SkipWhile(s, a, {"0"}) IN
  IF z >= b THEN 0
  ELSE IF b - z > 5 THEN 99999
  ELSE ValueOf(SubSeq(s, z, b - 1), b - z)

\* the outcome of a step of JSON.parse: a syntax error, or the value read
\* and the index after it
Parsed(ok, v, pos) == [ok |-> ok, v |-> v, pos |-> pos]

SyntaxError == Parsed(FALSE, JSUndefined, 0)

JSONWhiteSpace == {" ", "\t", "\n", "\r"}

At(s, p) == IF p >= 1 /\ p <= Len(s) THEN s[p] ELSE ""

\* the parts of a decimal literal of which the integer digits end before
\* the index b: the fraction, after a point, ends before c; the digits of
\* the exponent, after e or E and a sign, are those from d to before e
\* (d = c when there is no exponent)
Literal(b, c, d, e) == [b |-> b, c |-> c, d |-> d, e |-> e]

LiteralExponent(s, b, c, d) ==
  Literal(b, c, d, IF d = c THEN c ELSE SkipWhile(s, d, DigitSet))

LiteralFraction(s, b, c) ==
  LiteralExponent(s, b, c,
                  IF At(s, c) \notin {"e", "E"} THEN c
                  ELSE IF At(s, c + 1) \in {"+", "-"} THEN c + 2
                  ELSE c + 1)

LiteralFrom(s, b) ==
  LiteralFraction(s, b, IF At(s, b) = "." THEN SkipWhile(s, b + 1, DigitSet) ELSE b)

Signed(neg, n) == IF neg THEN -n ELSE n

\* the number of the literal L of s, which begins at a
NumberOfLiteral(neg, s, a, L) ==
  NumberOf(neg, SubSeq(s, a, L.b - 1), SubSeq(s, L.b + 1, L.c - 1),
           IF L.d = L.c THEN 0 ELSE Signed(At(s, L.c + 1) = "-", ExponentOf(s, L.d, L.e)))

\* the literal has no digit after its point, or none in its exponent
LiteralCutShort(L) == L.c = L.b + 1 \/ (L.d # L.c /\ L.e = L.d)

JSONLiteral(s, a, neg, L) ==
  IF L.b = a \/ LiteralCutShort(L) THEN SyntaxError
  ELSE Parsed(TRUE, NumberOfLiteral(neg, s, a, L), L.e)

\* a JSON number of which the digits begin at a: 0 stands alone
JSONDigits(s, a, neg) ==
  JSONLiteral(s, a, neg,
              LiteralFrom(s, IF At(s, a) = "0" THEN a + 1 ELSE SkipWhile(s, a, DigitSet)))

\* a JSON number of which the first character is at p
JSONNumber(s, p) == JSONDigits(s, IF At(s, p) = "-" THEN p + 1 ELSE p, At(s, p) = "-")

RECURSIVE JSONChars(_, _, _)
\* the characters of a JSON string from p on, up to the closing quote: the
\* string and the index after the quote
JSONChars(s, p, acc) ==
  LET c == At(s, p) IN
  IF c = "" \/ c \in ControlChars THEN SyntaxError
  ELSE IF c = "\"" THEN Parsed(TRUE, JSString(acc), p + 1)
  ELSE IF c # "\\" THEN JSONChars(s, p + 1, Append(acc, c))
  ELSE LET x == At(s, p + 1) IN
       IF x \in {"\"", "\\", "/"} THEN JSONChars(s, p + 2, Append(acc, x))
       ELSE IF x = "b" THEN JSONChars(s, p + 2, Append(acc, CharOfCode(0, 8)))
       ELSE IF x = "f" THEN JSONChars(s, p + 2, Append(acc, "\f"))
       ELSE IF x = "n" THEN JSONChars(s, p + 2, Append(acc, "\n"))
       ELSE IF x = "r" THEN JSONChars(s, p + 2, Append(acc, "\r"))
       ELSE IF x = "t" THEN JSONChars(s, p + 2, Append(acc, "\t"))
       ELSE IF x = "u" /\ \A k \in 2..5 : At(s, p + k) # "" /\ IsHex(At(s, p + k))
       THEN LET h == [k \in 1..4 |-> HexVal(s[p + 1 + k])] IN
            JSONChars(s, p + 6,
                      Append(acc,
                             IF h[1] = 0 /\ h[2] = 0 THEN CharOfCode(h[3], h[4])
                             ELSE "U+" \o HexUpper[h[1] + 1] \o HexUpper[h[2] + 1]
                                       \o HexUpper[h[3] + 1] \o HexUpper[h[4] + 1]))
       ELSE SyntaxError

\* s holds the word w at p
HasWord(s, p, w) == p + Len(w) - 1 <= Len(s) /\ SubSeq(s, p, p + Len(w) - 1) = w

RECURSIVE JSONValue(_, _)
RECURSIVE JSONValueAt(_, _)
RECURSIVE JSONOpened(_, _, _)
RECURSIVE JSONItems(_, _, _)
RECURSIVE ItemsAfter(_, _, _)
RECURSIVE ItemsNext(_, _, _)
RECURSIVE JSONMembers(_, _, _)
RECURSIVE MemberKey(_, _, _)
RECURSIVE MemberColon(_, _, _)
RECURSIVE MemberValue(_, _, _, _)
RECURSIVE MemberAfter(_, _, _, _)
RECURSIVE MembersNext(_, _, _)

\* a JSON value, white space before it allowed
JSONValue(s, p0) == JSONValueAt(s, SkipWhile(s, p0, JSONWhiteSpace))

JSONValueAt(s, p) ==
  IF At(s, p) = "\"" THEN JSONChars(s, p + 1, <<>>)
  ELSE IF At(s, p) = "-" \/ IsDigit(At(s, p)) THEN JSONNumber(s, p)
  ELSE IF HasWord(s, p, JSTrue.val) THEN Parsed(TRUE, JSTrue, p + 4)
  ELSE IF HasWord(s, p, JSFalse.val) THEN Parsed(TRUE, JSFalse, p + 5)
  ELSE IF HasWord(s, p, JSNull.val) THEN Parsed(TRUE, JSNull, p + 4)
  ELSE IF At(s, p) \in {"[", "{"} THEN JSONOpened(s, p, SkipWhile(s, p + 1, JSONWhiteSpace))
  ELSE SyntaxError

\* an array or an object opened at p, q being the index of what follows
JSONOpened(s, p, q) ==
  IF At(s, p) = "[" /\ At(s, q) = "]" THEN Parsed(TRUE, JSArray(<<>>, <<>>), q + 1)
  ELSE IF At(s, p) = "[" THEN JSONItems(s, p + 1, <<>>)
  ELSE IF At(s, q) = "}" THEN Parsed(TRUE, JSObject(<<>>), q + 1)
  ELSE JSONMembers(s, p + 1, <<>>)

\* the elements of a JSON array from p on
JSONItems(s, p, acc) == ItemsAfter(s, acc, JSONValue(s, p))

ItemsAfter(s, acc, r) ==
  IF ~r.ok THEN SyntaxError
  ELSE ItemsNext(s, Append(acc, r.v), SkipWhile(s, r.pos, JSONWhiteSpace))

ItemsNext(s, acc, q) ==
  IF At(s, q) = "," THEN JSONItems(s, q + 1, acc)
  ELSE IF At(s, q) = "]" THEN Parsed(TRUE, JSArray(acc, <<>>), q + 1)
  ELSE SyntaxError

\* the members of a JSON object from p on
JSONMembers(s, p, acc) == MemberKey(s, acc, SkipWhile(s, p, JSONWhiteSpace))

MemberKey(s, acc, a) ==
  MemberColon(s, acc, IF At(s, a) = "\"" THEN JSONChars(s, a + 1, <<>>) ELSE SyntaxError)

MemberColon(s, acc, k) ==
  IF ~k.ok THEN SyntaxError ELSE MemberValue(s, acc, k, SkipWhile(s, k.pos, JSONWhiteSpace))

MemberValue(s, acc, k, b) ==
  IF At(s, b) # ":" THEN SyntaxError ELSE MemberAfter(s, acc, k, JSONValue(s, b + 1))

MemberAfter(s, acc, k, r) ==
  IF ~r.ok THEN SyntaxError
  ELSE MembersNext(s, SetProp(acc, k.v.val, r.v), SkipWhile(s, r.pos, JSONWhiteSpace))

MembersNext(s, acc, q) ==
  IF At(s, q) = "," THEN JSONMembers(s, q + 1, acc)
  ELSE IF At(s, q) = "}" THEN Parsed(TRUE, JSObject(acc), q + 1)
  ELSE SyntaxError

\* the outcome of JSON.parse when the value r was read: nothing but white
\* space may follow it
JSONEnd(text, r) ==
  IF r.ok /\ SkipWhile(text, r.pos, JSONWhiteSpace) = Len(text) + 1 THEN r.v
  ELSE JSThrow("SyntaxError")

\* JSON.parse(text): the value, or a SyntaxError thrown
JSONparse(text) == JSONEnd(text, JSONValue(text, 1))
----------------------------------------------------------------------------
(* The objects of the language.  The objects that a computation shares     *)
(* are kept apart from the values that name them: the realm holds the      *)
(* built-in objects and functions that were given a property, the heap     *)
(* the objects of a computation that goes by reference (a value of kind    *)
(* "ref" holds in val the digits of its place in the heap).  An object     *)
(* that is written in a value, props and all, is a copy of its own.        *)

Env(realm, heap) == [realm |-> realm, heap |-> heap]

\* no built-in object was given a property, and no object is shared
NoRealm == <<>>

NoEnv == Env(NoRealm, <<>>)

JSRef(n) == JSVal("ref", "", DigitsOf(n), <<>>, <<>>)

RefId(v) == ValueOf(v.val, Len(v.val))

\* a built-in function: the object it is a property of, and its name
Fn(owner, name) == JSVal("function", owner, name, <<>>, <<>>)

\* the constructors Object, Array, Function, String, Number and Boolean
Ctor(name) == Fn("global", name)

ObjectPrototype == JSVal("object", "%Object.prototype%", <<>>, <<>>, <<>>)

\* Array.prototype is an array
ArrayPrototype == JSVal("array", "%Array.prototype%", Zero, <<>>, <<>>)

\* Function.prototype is a function
FunctionPrototype == JSVal("function", "%Function.prototype%", <<>>, <<>>, <<>>)

StringPrototype == JSVal("object", "%String.prototype%", <<>>, <<>>, <<>>)

NumberPrototype == JSVal("object", "%Number.prototype%", <<>>, <<>>, <<>>)

BooleanPrototype == JSVal("object", "%Boolean.prototype%", <<>>, <<>>, <<>>)

IsIntrinsic(v) == v.code # "" /\ v.kind \in {"object", "array", "function"}

\* two values name the same built-in object
SameIntrinsic(a, b) ==
  a.kind = b.kind /\ a.code = b.code /\ (a.kind = "function" => a.val = b.val)

\* a property that a built-in object has of itself: its value, whether an
\* assignment changes it, and the number of parameters of a function
Builtin(key, v, writable) == [key |-> key, v |-> v, writable |-> writable, len |-> 0]

Method(key, owner, name, len) == [key |-> key, v |-> Fn(owner, name), writable |-> TRUE, len |-> len]

\* the functions of the names and numbers of parameters listed, as the
\* properties of the built-in object of the name owner
Methods(owner, list) ==
  [n \in 1..Len(list) |-> Method(list[n][1], owner, list[n][1], list[n][2])]

\* the properties of the function Object
ObjectStatics ==
  Methods("Object",
          << <<<<"a", "s", "s", "i", "g", "n">>, 2>>, <<<<"c", "r", "e", "a", "t", "e">>, 2>>,
          <<<<"d", "e", "f", "i", "n", "e", "P", "r", "o", "p", "e", "r", "t", "i", "e", "s">>, 2>>,
          <<<<"d", "e", "f", "i", "n", "e", "P", "r", "o", "p", "e", "r", "t", "y">>, 3>>,
          <<<<"e", "n", "t", "r", "i", "e", "s">>, 1>>, <<<<"f", "r", "e", "e", "z", "e">>, 1>>,
          <<<<"f", "r", "o", "m", "E", "n", "t", "r", "i", "e", "s">>, 1>>,
          <<<<"g", "e", "t", "O", "w", "n", "P", "r", "o", "p", "e", "r", "t", "y", "D", "e", "s", "c", "r", "i", "p", "t", "o", "r">>, 2>>,
          <<<<"g", "e", "t", "O", "w", "n", "P", "r", "o", "p", "e", "r", "t", "y", "D", "e", "s", "c", "r", "i", "p", "t", "o", "r", "s">>, 1>>,
          <<<<"g", "e", "t", "O", "w", "n", "P", "r", "o", "p", "e", "r", "t", "y", "N", "a", "m", "e", "s">>, 1>>,
          <<<<"g", "e", "t", "O", "w", "n", "P", "r", "o", "p", "e", "r", "t", "y", "S", "y", "m", "b", "o", "l", "s">>, 1>>,
          <<<<"g", "e", "t", "P", "r", "o", "t", "o", "t", "y", "p", "e", "O", "f">>, 1>>,
          <<<<"h", "a", "s", "O", "w", "n">>, 2>>,
          <<<<"i", "s">>, 2>>,
          <<<<"i", "s", "E", "x", "t", "e", "n", "s", "i", "b", "l", "e">>, 1>>,
          <<<<"i", "s", "F", "r", "o", "z", "e", "n">>, 1>>,
          <<<<"i", "s", "S", "e", "a", "l", "e", "d">>, 1>>, <<<<"k", "e", "y", "s">>, 1>>,
          <<<<"p", "r", "e", "v", "e", "n", "t", "E", "x", "t", "e", "n", "s", "i", "o", "n", "s">>, 1>>,
          <<<<"s", "e", "a", "l">>, 1>>,
          <<<<"s", "e", "t", "P", "r", "o", "t", "o", "t", "y", "p", "e", "O", "f">>, 2>>,
          <<<<"v", "a", "l", "u", "e", "s">>, 1>>>>)

\* the data properties of Object.prototype
ObjectPrototypeTable ==
  Methods("Object.prototype",
          << <<<<"_", "_", "d", "e", "f", "i", "n", "e", "G", "e", "t", "t", "e", "r", "_", "_">>, 2>>,
          <<<<"_", "_", "d", "e", "f", "i", "n", "e", "S", "e", "t", "t", "e", "r", "_", "_">>, 2>>,
          <<<<"h", "a", "s", "O", "w", "n", "P", "r", "o", "p", "e", "r", "t", "y">>, 1>>,
          <<<<"_", "_", "l", "o", "o", "k", "u", "p", "G", "e", "t", "t", "e", "r", "_", "_">>, 1>>,
          <<<<"_", "_", "l", "o", "o", "k", "u", "p", "S", "e", "t", "t", "e", "r", "_", "_">>, 1>>,
          <<<<"i", "s", "P", "r", "o", "t", "o", "t", "y", "p", "e", "O", "f">>, 1>>,
          <<<<"p", "r", "o", "p", "e", "r", "t", "y", "I", "s", "E", "n", "u", "m", "e", "r", "a", "b", "l", "e">>, 1>>,
          <<<<"t", "o", "S", "t", "r", "i", "n", "g">>, 0>>,
          <<<<"v", "a", "l", "u", "e", "O", "f">>, 0>>,
          <<<<"t", "o", "L", "o", "c", "a", "l", "e", "S", "t", "r", "i", "n", "g">>, 0>>>>)
    \o <<Builtin(<<"c", "o", "n", "s", "t", "r", "u", "c", "t", "o", "r">>, Ctor(<<"O", "b", "j", "e", "c", "t">>), TRUE)>>

\* the data properties of Function.prototype
FunctionPrototypeTable ==
  Methods("Function.prototype",
          << <<<<"a", "p", "p", "l", "y">>, 2>>, <<<<"b", "i", "n", "d">>, 1>>,
          <<<<"c", "a", "l", "l">>, 1>>, <<<<"t", "o", "S", "t", "r", "i", "n", "g">>, 0>>>>)
    \o <<Builtin(<<"c", "o", "n", "s", "t", "r", "u", "c", "t", "o", "r">>, Ctor(<<"F", "u", "n", "c", "t", "i", "o", "n">>), TRUE)>>

\* the properties of the function Array
ArrayStatics ==
  Methods("Array",
          << <<<<"f", "r", "o", "m">>, 1>>,
          <<<<"i", "s", "A", "r", "r", "a", "y">>, 1>>, <<<<"o", "f">>, 0>>>>)

\* the data properties of Array.prototype
ArrayPrototypeTable ==
  Methods("Array.prototype",
          << <<<<"a", "t">>, 1>>, <<<<"c", "o", "n", "c", "a", "t">>, 1>>,
          <<<<"c", "o", "p", "y", "W", "i", "t", "h", "i", "n">>, 2>>,
          <<<<"f", "i", "l", "l">>, 1>>, <<<<"f", "i", "n", "d">>, 1>>,
          <<<<"f", "i", "n", "d", "I", "n", "d", "e", "x">>, 1>>,
          <<<<"f", "i", "n", "d", "L", "a", "s", "t">>, 1>>,
          <<<<"f", "i", "n", "d", "L", "a", "s", "t", "I", "n", "d", "e", "x">>, 1>>,
          <<<<"l", "a", "s", "t", "I", "n", "d", "e", "x", "O", "f">>, 1>>,
          <<<<"p", "o", "p">>, 0>>, <<<<"p", "u", "s", "h">>, 1>>,
          <<<<"r", "e", "v", "e", "r", "s", "e">>, 0>>, <<<<"s", "h", "i", "f", "t">>, 0>>,
          <<<<"u", "n", "s", "h", "i", "f", "t">>, 1>>, <<<<"s", "l", "i", "c", "e">>, 2>>,
          <<<<"s", "o", "r", "t">>, 1>>, <<<<"s", "p", "l", "i", "c", "e">>, 2>>,
          <<<<"i", "n", "c", "l", "u", "d", "e", "s">>, 1>>,
          <<<<"i", "n", "d", "e", "x", "O", "f">>, 1>>, <<<<"j", "o", "i", "n">>, 1>>,
          <<<<"k", "e", "y", "s">>, 0>>, <<<<"e", "n", "t", "r", "i", "e", "s">>, 0>>,
          <<<<"v", "a", "l", "u", "e", "s">>, 0>>, <<<<"f", "o", "r", "E", "a", "c", "h">>, 1>>,
          <<<<"f", "i", "l", "t", "e", "r">>, 1>>, <<<<"f", "l", "a", "t">>, 0>>,
          <<<<"f", "l", "a", "t", "M", "a", "p">>, 1>>, <<<<"m", "a", "p">>, 1>>,
          <<<<"e", "v", "e", "r", "y">>, 1>>, <<<<"s", "o", "m", "e">>, 1>>,
          <<<<"r", "e", "d", "u", "c", "e">>, 1>>,
          <<<<"r", "e", "d", "u", "c", "e", "R", "i", "g", "h", "t">>, 1>>,
          <<<<"t", "o", "L", "o", "c", "a", "l", "e", "S", "t", "r", "i", "n", "g">>, 0>>,
          <<<<"t", "o", "S", "t", "r", "i", "n", "g">>, 0>>,
          <<<<"t", "o", "R", "e", "v", "e", "r", "s", "e", "d">>, 0>>,
          <<<<"t", "o", "S", "o", "r", "t", "e", "d">>, 1>>,
          <<<<"t", "o", "S", "p", "l", "i", "c", "e", "d">>, 2>>, <<<<"w", "i", "t", "h">>, 2>>>>)
    \o <<Builtin(<<"c", "o", "n", "s", "t", "r", "u", "c", "t", "o", "r">>, Ctor(<<"A", "r", "r", "a", "y">>), TRUE)>>

\* the properties of the function String
StringStatics ==
  Methods("String",
          << <<<<"f", "r", "o", "m", "C", "h", "a", "r", "C", "o", "d", "e">>, 1>>,
          <<<<"f", "r", "o", "m", "C", "o", "d", "e", "P", "o", "i", "n", "t">>, 1>>,
          <<<<"r", "a", "w">>, 1>>>>)

\* the data properties of String.prototype
StringPrototypeTable ==
  Methods("String.prototype",
          << <<<<"a", "n", "c", "h", "o", "r">>, 1>>, <<<<"a", "t">>, 1>>, <<<<"b", "i", "g">>, 0>>,
          <<<<"b", "l", "i", "n", "k">>, 0>>, <<<<"b", "o", "l", "d">>, 0>>,
          <<<<"c", "h", "a", "r", "A", "t">>, 1>>,
          <<<<"c", "h", "a", "r", "C", "o", "d", "e", "A", "t">>, 1>>,
          <<<<"c", "o", "d", "e", "P", "o", "i", "n", "t", "A", "t">>, 1>>,
          <<<<"c", "o", "n", "c", "a", "t">>, 1>>,
          <<<<"e", "n", "d", "s", "W", "i", "t", "h">>, 1>>,
          <<<<"f", "o", "n", "t", "c", "o", "l", "o", "r">>, 1>>,
          <<<<"f", "o", "n", "t", "s", "i", "z", "e">>, 1>>, <<<<"f", "i", "x", "e", "d">>, 0>>,
          <<<<"i", "n", "c", "l", "u", "d", "e", "s">>, 1>>,
          <<<<"i", "n", "d", "e", "x", "O", "f">>, 1>>,
          <<<<"i", "s", "W", "e", "l", "l", "F", "o", "r", "m", "e", "d">>, 0>>,
          <<<<"i", "t", "a", "l", "i", "c", "s">>, 0>>,
          <<<<"l", "a", "s", "t", "I", "n", "d", "e", "x", "O", "f">>, 1>>,
          <<<<"l", "i", "n", "k">>, 1>>,
          <<<<"l", "o", "c", "a", "l", "e", "C", "o", "m", "p", "a", "r", "e">>, 1>>,
          <<<<"m", "a", "t", "c", "h">>, 1>>, <<<<"m", "a", "t", "c", "h", "A", "l", "l">>, 1>>,
          <<<<"n", "o", "r", "m", "a", "l", "i", "z", "e">>, 0>>,
          <<<<"p", "a", "d", "E", "n", "d">>, 1>>,
          <<<<"p", "a", "d", "S", "t", "a", "r", "t">>, 1>>,
          <<<<"r", "e", "p", "e", "a", "t">>, 1>>, <<<<"r", "e", "p", "l", "a", "c", "e">>, 2>>,
          <<<<"r", "e", "p", "l", "a", "c", "e", "A", "l", "l">>, 2>>,
          <<<<"s", "e", "a", "r", "c", "h">>, 1>>, <<<<"s", "l", "i", "c", "e">>, 2>>,
          <<<<"s", "m", "a", "l", "l">>, 0>>, <<<<"s", "p", "l", "i", "t">>, 2>>,
          <<<<"s", "t", "r", "i", "k", "e">>, 0>>, <<<<"s", "u", "b">>, 0>>,
          <<<<"s", "u", "b", "s", "t", "r">>, 2>>,
          <<<<"s", "u", "b", "s", "t", "r", "i", "n", "g">>, 2>>, <<<<"s", "u", "p">>, 0>>,
          <<<<"s", "t", "a", "r", "t", "s", "W", "i", "t", "h">>, 1>>,
          <<<<"t", "o", "S", "t", "r", "i", "n", "g">>, 0>>,
          <<<<"t", "o", "W", "e", "l", "l", "F", "o", "r", "m", "e", "d">>, 0>>,
          <<<<"t", "r", "i", "m">>, 0>>, <<<<"t", "r", "i", "m", "S", "t", "a", "r", "t">>, 0>>,
          <<<<"t", "r", "i", "m", "E", "n", "d">>, 0>>,
          <<<<"t", "o", "L", "o", "c", "a", "l", "e", "L", "o", "w", "e", "r", "C", "a", "s", "e">>, 0>>,
          <<<<"t", "o", "L", "o", "c", "a", "l", "e", "U", "p", "p", "e", "r", "C", "a", "s", "e">>, 0>>,
          <<<<"t", "o", "L", "o", "w", "e", "r", "C", "a", "s", "e">>, 0>>,
          <<<<"t", "o", "U", "p", "p", "e", "r", "C", "a", "s", "e">>, 0>>,
          <<<<"v", "a", "l", "u", "e", "O", "f">>, 0>>>>)
    \o <<Method(<<"t", "r", "i", "m", "L", "e", "f", "t">>, "String.prototype", <<"t", "r", "i", "m", "S", "t", "a", "r", "t">>, 0),
         Method(<<"t", "r", "i", "m", "R", "i", "g", "h", "t">>, "String.prototype", <<"t", "r", "i", "m", "E", "n", "d">>, 0),
         Builtin(<<"c", "o", "n", "s", "t", "r", "u", "c", "t", "o", "r">>, Ctor(<<"S", "t", "r", "i", "n", "g">>), TRUE)>>

\* the properties of the function Number
NumberStatics ==
  Methods("Number",
          << <<<<"i", "s", "F", "i", "n", "i", "t", "e">>, 1>>,
          <<<<"i", "s", "I", "n", "t", "e", "g", "e", "r">>, 1>>,
          <<<<"i", "s", "N", "a", "N">>, 1>>,
          <<<<"i", "s", "S", "a", "f", "e", "I", "n", "t", "e", "g", "e", "r">>, 1>>,
          <<<<"p", "a", "r", "s", "e", "F", "l", "o", "a", "t">>, 1>>,
          <<<<"p", "a", "r", "s", "e", "I", "n", "t">>, 2>>>>)
    \o <<Builtin(<<"M", "A", "X", "_", "V", "A", "L", "U", "E">>, JSNumber(<<"1", ".", "7", "9", "7", "6", "9", "3", "1", "3", "4", "8", "6", "2", "3", "1", "5", "7", "e", "+", "3", "0", "8">>), FALSE),
         Builtin(<<"M", "I", "N", "_", "V", "A", "L", "U", "E">>, JSNumber(<<"5", "e", "-", "3", "2", "4">>), FALSE),
         Builtin(<<"N", "a", "N">>, JSNumber(<<"N", "a", "N">>), FALSE),
         Builtin(<<"N", "E", "G", "A", "T", "I", "V", "E", "_", "I", "N", "F", "I", "N", "I", "T", "Y">>, JSNumber(<<"-", "I", "n", "f", "i", "n", "i", "t", "y">>), FALSE),
         Builtin(<<"P", "O", "S", "I", "T", "I", "V", "E", "_", "I", "N", "F", "I", "N", "I", "T", "Y">>, JSNumber(<<"I", "n", "f", "i", "n", "i", "t", "y">>), FALSE),
         Builtin(<<"M", "A", "X", "_", "S", "A", "F", "E", "_", "I", "N", "T", "E", "G", "E", "R">>, JSNumber(<<"9", "0", "0", "7", "1", "9", "9", "2", "5", "4", "7", "4", "0", "9", "9", "1">>), FALSE),
         Builtin(<<"M", "I", "N", "_", "S", "A", "F", "E", "_", "I", "N", "T", "E", "G", "E", "R">>, JSNumber(<<"-", "9", "0", "0", "7", "1", "9", "9", "2", "5", "4", "7", "4", "0", "9", "9", "1">>), FALSE),
         Builtin(<<"E", "P", "S", "I", "L", "O", "N">>, JSNumber(<<"2", ".", "2", "2", "0", "4", "4", "6", "0", "4", "9", "2", "5", "0", "3", "1", "3", "e", "-", "1", "6">>), FALSE)>>

\* the data properties of Number.prototype
NumberPrototypeTable ==
  Methods("Number.prototype",
          << <<<<"t", "o", "E", "x", "p", "o", "n", "e", "n", "t", "i", "a", "l">>, 1>>,
          <<<<"t", "o", "F", "i", "x", "e", "d">>, 1>>,
          <<<<"t", "o", "P", "r", "e", "c", "i", "s", "i", "o", "n">>, 1>>,
          <<<<"t", "o", "S", "t", "r", "i", "n", "g">>, 1>>,
          <<<<"v", "a", "l", "u", "e", "O", "f">>, 0>>,
          <<<<"t", "o", "L", "o", "c", "a", "l", "e", "S", "t", "r", "i", "n", "g">>, 0>>>>)
    \o <<Builtin(<<"c", "o", "n", "s", "t", "r", "u", "c", "t", "o", "r">>, Ctor(<<"N", "u", "m", "b", "e", "r">>), TRUE)>>

\* the data properties of Boolean.prototype
BooleanPrototypeTable ==
  Methods("Boolean.prototype",
          << <<<<"t", "o", "S", "t", "r", "i", "n", "g">>, 0>>,
          <<<<"v", "a", "l", "u", "e", "O", "f">>, 0>>>>)
    \o <<Builtin(<<"c", "o", "n", "s", "t", "r", "u", "c", "t", "o", "r">>, Ctor(<<"B", "o", "o", "l", "e", "a", "n">>), TRUE)>>

toStringKey == <<"t", "o", "S", "t", "r", "i", "n", "g">>

joinKey == <<"j", "o", "i", "n">>

pushKey == <<"p", "u", "s", "h">>

forEachKey == <<"f", "o", "r", "E", "a", "c", "h">>

keysKey == <<"k", "e", "y", "s">>

isArrayKey == <<"i", "s", "A", "r", "r", "a", "y">>

nameKey == <<"n", "a", "m", "e">>

prototypeKey == <<"p", "r", "o", "t", "o", "t", "y", "p", "e">>

callerKey == <<"c", "a", "l", "l", "e", "r">>

argumentsKey == <<"a", "r", "g", "u", "m", "e", "n", "t", "s">>

LengthKey == <<"l", "e", "n", "g", "t", "h">>

ProtoKey == <<"_", "_", "p", "r", "o", "t", "o", "_", "_">>

\* the properties that a built-in object has of itself
TableOf(o) ==
  IF o.code = "%Object.prototype%" THEN ObjectPrototypeTable
  ELSE IF o.code = "%Function.prototype%" THEN FunctionPrototypeTable
  ELSE IF o.code = "%Array.prototype%" THEN ArrayPrototypeTable
  ELSE IF o.code = "%String.prototype%" THEN StringPrototypeTable
  ELSE IF o.code = "%Number.prototype%" THEN NumberPrototypeTable
  ELSE IF o.code = "%Boolean.prototype%" THEN BooleanPrototypeTable
  ELSE IF o.code # "global" THEN <<>>
  ELSE IF o.val = <<"O", "b", "j", "e", "c", "t">> THEN ObjectStatics
  ELSE IF o.val = <<"A", "r", "r", "a", "y">> THEN ArrayStatics
  ELSE IF o.val = <<"S", "t", "r", "i", "n", "g">> THEN StringStatics
  ELSE IF o.val = <<"N", "u", "m", "b", "e", "r">> THEN NumberStatics
  ELSE <<>>

\* the table in which a built-in function is a property
TableOfOwner(code) ==
  IF code = "Object" THEN ObjectStatics
  ELSE IF code = "Object.prototype" THEN ObjectPrototypeTable
  ELSE IF code = "Function.prototype" THEN FunctionPrototypeTable
  ELSE IF code = "Array" THEN ArrayStatics
  ELSE IF code = "Array.prototype" THEN ArrayPrototypeTable
  ELSE IF code = "String" THEN StringStatics
  ELSE IF code = "String.prototype" THEN StringPrototypeTable
  ELSE IF code = "Number" THEN NumberStatics
  ELSE IF code = "Number.prototype" THEN NumberPrototypeTable
  ELSE IF code = "Boolean.prototype" THEN BooleanPrototypeTable
  ELSE <<>>

\* the property `prototype` of a constructor
PrototypeOfCtor(f) ==
  IF f.val = <<"O", "b", "j", "e", "c", "t">> THEN ObjectPrototype
  ELSE IF f.val = <<"A", "r", "r", "a", "y">> THEN ArrayPrototype
  ELSE IF f.val = <<"F", "u", "n", "c", "t", "i", "o", "n">> THEN FunctionPrototype
  ELSE IF f.val = <<"S", "t", "r", "i", "n", "g">> THEN StringPrototype
  ELSE IF f.val = <<"N", "u", "m", "b", "e", "r">> THEN NumberPrototype
  ELSE BooleanPrototype

\* the property `length` of a built-in function: the number of its
\* parameters (1 for the constructors, 0 for Function.prototype)
ArityIn(T, f) ==
  IF \E n \in 1..Len(T) : T[n].v = f THEN T[CHOOSE n \in 1..Len(T) : T[n].v = f].len ELSE 0

ArityOf(f) == IF f.code = "global" THEN 1 ELSE ArityIn(TableOfOwner(f.code), f)

\* what the search of a property found: a data property (its value, and
\* whether an assignment changes it), the accessor __proto__ of
\* Object.prototype, an accessor that throws a TypeError, or nothing
Found(found, v, writable) == [found |-> found, v |-> v, writable |-> writable]

NotFound == Found("none", JSUndefined, FALSE)

\* a property of the table T
FoundEntry(e) == Found("data", e.v, e.writable)

InTable(T, key) ==
  IF \E n \in 1..Len(T) : T[n].key = key
  THEN FoundEntry(T[CHOOSE n \in 1..Len(T) : T[n].key = key])
  ELSE NotFound

\* the canonical text of an integer of 0..2^32-1
IsArrayLength(text) ==
  /\ IsCanonicalNat(text)
  /\ DigitsLess(text, <<"4", "2", "9", "4", "9", "6", "7", "2", "9", "6">>)

\* the number an index or a length of no more than nine digits stands for
IndexVal(name) == ValueOf(name, Len(name))

\* an own property of o that is not among its props
OwnBuiltin(o, key) ==
  IF o.kind = "array" /\ key = LengthKey THEN Found("data", JSNumber(o.val), TRUE)
  ELSE IF o.kind = "string" /\ key = LengthKey
  THEN Found("data", JSNumber(DigitsOf(Len(o.val))), FALSE)
  ELSE IF o.kind = "string" /\ IsArrayIndex(key) /\ Len(key) < 10
  THEN IF IndexVal(key) < Len(o.val)
       THEN Found("data", JSString(<<o.val[IndexVal(key) + 1]>>), FALSE)
       ELSE NotFound
  ELSE IF o.code = "%String.prototype%" /\ key = LengthKey
  THEN Found("data", JSNumber(Zero), FALSE)
  ELSE IF o.kind = "function" /\ key = nameKey THEN Found("data", JSString(o.val), FALSE)
  ELSE IF o.kind = "function" /\ key = LengthKey
  THEN Found("data", JSNumber(DigitsOf(ArityOf(o))), FALSE)
  ELSE IF o.kind = "function" /\ o.code = "global" /\ key = prototypeKey
  THEN Found("data", PrototypeOfCtor(o), FALSE)
  ELSE IF o.code = "%Object.prototype%" /\ key = ProtoKey THEN Found("proto", JSUndefined, TRUE)
  ELSE IF o.code = "%Function.prototype%" /\ key \in {callerKey, argumentsKey}
  THEN Found("thrower", JSUndefined, FALSE)
  ELSE IF o.code = "" THEN NotFound
  ELSE InTable(TableOf(o), key)

\* the prototype of an object, or of the object a primitive is wrapped in
ProtoOf(o) ==
  IF o.proto # <<>> THEN o.proto[1]
  ELSE IF o.code = "%Object.prototype%" THEN JSNull
  ELSE IF o.kind = "function"
  THEN IF o.code = "%Function.prototype%" THEN ObjectPrototype ELSE FunctionPrototype
  ELSE IF o.kind = "array" THEN (IF o.code = "" THEN ArrayPrototype ELSE ObjectPrototype)
  ELSE IF o.kind = "string" THEN StringPrototype
  ELSE IF o.kind = "number" THEN NumberPrototype
  ELSE IF o.kind = "boolean" THEN BooleanPrototype
  ELSE ObjectPrototype

\* the built-in object that v names, as the realm has it
RealmEntry(realm, v) ==
  IF \E n \in 1..Len(realm) : SameIntrinsic(realm[n], v)
  THEN realm[CHOOSE n \in 1..Len(realm) : SameIntrinsic(realm[n], v)]
  ELSE v

PutRealm(realm, o) ==
  IF \E n \in 1..Len(realm) : SameIntrinsic(realm[n], o)
  THEN [realm EXCEPT ![CHOOSE n \in 1..Len(realm) : SameIntrinsic(realm[n], o)] = o]
  ELSE Append(realm, o)

\* the value that names the built-in object o
Stub(o) ==
  [o EXCEPT !.props = <<>>, !.proto = <<>>, !.val = IF o.kind = "array" THEN Zero ELSE @]

\* the object that the value v names
ObjectOf(E, v) ==
  IF v.kind = "ref" THEN E.heap[RefId(v)]
  ELSE IF IsIntrinsic(v) THEN RealmEntry(E.realm, v)
  ELSE v

\* what an operation leaves: the realm and the heap, and a value
Done(E, v) == [env |-> E, v |-> v]

\* the object that v names becomes o
Store(E, v, o) ==
  IF v.kind = "ref" THEN Done([E EXCEPT !.heap[RefId(v)] = o], v)
  ELSE IF IsIntrinsic(v) THEN Done([E EXCEPT !.realm = PutRealm(@, o)], Stub(o))
  ELSE Done(E, o)

RECURSIVE FindProp(_, _, _)
RECURSIVE FindInProto(_, _, _)
RECURSIVE FindFrom(_, _, _, _)

\* OrdinaryGet's search for the property key, from the object o up its
\* prototypes
FindProp(E, o, key) ==
  IF HasProp(o.props, key) THEN Found("data", o.props[IndexOf(o.props, key)].v, TRUE)
  ELSE FindFrom(E, o, key, OwnBuiltin(o, key))

\* the search goes on in the prototype of o when o has no property own of
\* itself
FindFrom(E, o, key, own) ==
  IF own.found # "none" THEN own ELSE FindInProto(E, key, ProtoOf(o))

FindInProto(E, key, q) ==
  IF q.kind = "null" THEN NotFound ELSE FindProp(E, ObjectOf(E, q), key)

\* what the property found gives the object o that was asked for it
GetFound(o, f) ==
  IF f.found = "data" THEN f.v
  ELSE IF f.found = "proto" THEN ProtoOf(o)
  ELSE IF f.found = "thrower" THEN JSThrow("TypeError")
  ELSE JSUndefined

\* o[key] of an object
GetOf(E, o, key) == GetFound(o, FindProp(E, o, key))

\* v[key]: the property of the object or of one of its prototypes,
\* undefined when there is none, a TypeError when v is undefined or null
Get(E, v, key) ==
  IF IsThrow(v) THEN v
  ELSE IF v.kind \in {"undefined", "null"} THEN JSThrow("TypeError")
  ELSE GetOf(E, ObjectOf(E, v), key)

\* v[key] where no built-in object was given a property
GetProp(v, key) == Get(NoEnv, v, key)

\* typeof v
TypeOf(v) ==
  IF v.kind \in {"ref", "array", "null"} THEN "object" ELSE v.kind

\* v is an object: a value that ToPrimitive turns into a primitive
IsObject(v) == v.kind \in {"object", "array", "function", "ref"}

TypeError == JSThrow("TypeError")

RangeError == JSThrow("RangeError")

----------------------------------------------------------------------------
(* ToPrimitive, ToString and ToNumber *)

\* n + 1 on the decimal text of a natural number
Increment(text) ==
  IF \A k \in 1..Len(text) : text[k] = "9" THEN <<"1">> \o Zeros(Len(text))
  ELSE LET k == CHOOSE k \in 1..Len(text) :
                  text[k] # "9" /\ \A j \in (k + 1)..Len(text) : text[j] = "9" IN
       SubSeq(text, 1, k - 1) \o <<Digit(DigitVal(text[k]) + 1)>> \o Zeros(Len(text) - k)

RECURSIVE RadixDigits(_, _, _, _)
\* the natural number that the digits s[n..] of a base that is a power of
\* two (shift is its exponent) add to acc
RadixDigits(s, n, shift, acc) ==
  IF n > Len(s) THEN acc
  ELSE RadixDigits(s, n + 1, shift,
                   BigAdd(BigShift(acc, shift), BigOf(DigitsOf(HexVal(s[n])))))

\* a text of digits of the base radix, and not an empty one
IsRadixText(s, radix) ==
  s # <<>> /\ \A n \in 1..Len(s) : IsHex(s[n]) /\ HexVal(s[n]) < radix

\* the number of the literal L, which is all of s
DecimalLiteral(neg, s, L) ==
  IF L.e # Len(s) + 1 \/ (L.d # L.c /\ L.e = L.d) THEN JSNumber(NaNText)
  ELSE IF L.b = 1 /\ L.c \in {L.b, L.b + 1} THEN JSNumber(NaNText)
  ELSE NumberOfLiteral(neg, s, 1, L)

\* StrUnsignedDecimalLiteral: Infinity, or digits with a part after the
\* point and an exponent
DecimalToNumber(neg, s) ==
  IF s = Infinity THEN JSNumber((IF neg THEN <<"-">> ELSE <<>>) \o Infinity)
  ELSE DecimalLiteral(neg, s, LiteralFrom(s, SkipWhile(s, 1, DigitSet)))

\* a literal of the radix 16, 8 or 2
HasRadix(s) == Len(s) >= 2 /\ s[1] = "0" /\ s[2] \in {"x", "X", "o", "O", "b", "B"}

RadixOf(s) == IF s[2] \in {"x", "X"} THEN 16 ELSE IF s[2] \in {"o", "O"} THEN 8 ELSE 2

\* the decimal digits, after a 0, of the number of a literal of a radix
RadixText(s, radix) ==
  <<"0">> \o BigChars(RadixDigits(SubSeq(s, 3, Len(s)), 1,
                                  IF radix = 16 THEN 4 ELSE IF radix = 8 THEN 3 ELSE 1, <<>>))

\* StringToNumber of a text without white space around it: a literal of
\* a radix has no sign
TrimmedToNumber(s) ==
  IF s = <<>> THEN JSNumber(Zero)
  ELSE IF HasRadix(s) /\ ~IsRadixText(SubSeq(s, 3, Len(s)), RadixOf(s)) THEN JSNumber(NaNText)
  ELSE DecimalToNumber(~HasRadix(s) /\ s[1] = "-",
                       IF HasRadix(s) THEN RadixText(s, RadixOf(s))
                       ELSE IF s[1] \in {"+", "-"} THEN Tail(s)
                       ELSE s)

\* ToNumber of a string
StringToNumber(s) == TrimmedToNumber(Trim(s))

ObjectText(class) ==
  <<"[", "o", "b", "j", "e", "c", "t", " ">> \o class \o <<"]">>

\* Object.prototype.toString.call(o)
ObjectToString(o) ==
  IF o.kind = "array" THEN ObjectText(<<"A", "r", "r", "a", "y">>)
  ELSE IF o.kind = "function" THEN ObjectText(<<"F", "u", "n", "c", "t", "i", "o", "n">>)
  ELSE IF o.code = "%String.prototype%" THEN ObjectText(<<"S", "t", "r", "i", "n", "g">>)
  ELSE IF o.code = "%Number.prototype%" THEN ObjectText(<<"N", "u", "m", "b", "e", "r">>)
  ELSE IF o.code = "%Boolean.prototype%"
  THEN ObjectText(<<"B", "o", "o", "l", "e", "a", "n">>)
  ELSE ObjectText(<<"O", "b", "j", "e", "c", "t">>)

\* Function.prototype.toString.call(f) of a built-in function
NativeCode(f) ==
  <<"f", "u", "n", "c", "t", "i", "o", "n", " ">> \o f.val
    \o <<"(", ")", " ", "{", " ", "[", "n", "a", "t", "i", "v", "e", " ", "c", "o", "d", "e",
         "]", " ", "}">>

\* the longest string: String::kMaxLength, 2^29 - 24
MaxStringLength == 536870888

\* the integer of ToLength for the number of the text n: an integer of
\* 0..2^53-1
LengthText(n) ==
  IF n = NaNText \/ n[1] = "-" THEN Zero
  ELSE IF n = Infinity \/ Contains(n, "+") THEN BigChars(BigSub(TwoTo53, <<1>>))
  ELSE IF Contains(n, "e") THEN Zero
  ELSE IF DigitsLess(SubSeq(n, 1, SkipUntil(n, 1, {"."}) - 1), BigChars(TwoTo53))
  THEN SubSeq(n, 1, SkipUntil(n, 1, {"."}) - 1)
  ELSE BigChars(BigSub(TwoTo53, <<1>>))

\* ToLength of the outcome of ToNumber
ToLength(n) == IF IsThrow(n) THEN n ELSE JSNumber(LengthText(n.val))

RECURSIVE IndexKeys(_, _)
\* the array indices among the properties of the object o and of its
\* prototypes
IndexKeys(E, o) ==
  {o.props[n].name : n \in {m \in 1..Len(o.props) : IsArrayIndex(o.props[m].name)}}
    \cup (IF ProtoOf(o).kind = "null" THEN {} ELSE IndexKeys(E, ObjectOf(E, ProtoOf(o))))

RECURSIVE SortKeys(_)
\* indices in ascending order
SortKeys(set) ==
  IF set = {} THEN <<>>
  ELSE LET least == CHOOSE k \in set : \A j \in set : j = k \/ DigitsLess(k, j) IN
       <<least>> \o SortKeys(set \ {least})

\* the indices below the length len at which the object o, or one of its
\* prototypes, has an element
ElementKeys(E, o, len) == SortKeys({k \in IndexKeys(E, o) : DigitsLess(k, len)})

\* the text n times
Repeat(text, n) == [k \in 1..(n * Len(text)) |-> text[((k - 1) % Len(text)) + 1]]

\* a + b of two strings; an error thrown in the making of the first, or
\* else of the second, is the outcome
Concat(a, b) ==
  IF IsThrow(a) THEN a ELSE IF IsThrow(b) THEN b ELSE JSString(a.val \o b.val)

RECURSIVE ToPrimitive(_, _)
RECURSIVE ToStringIn(_, _)
RECURSIVE ToNumber(_, _)
RECURSIVE JoinFrom(_, _, _, _, _, _)

\* LengthOfArrayLike(v)
LengthOfArrayLike(E, v) == ToLength(ToNumber(E, Get(E, v, LengthKey)))

\* an element in the text of join
ElementText(E, e) ==
  IF e.kind \in {"undefined", "null"} THEN JSString(<<>>) ELSE ToStringIn(E, e)

\* the elements of the indices keys[n..] joined with commas, when
\* `written` commas are written: a missing element writes nothing
JoinFrom(E, v, keys, n, written, len) ==
  IF n > Len(keys) THEN JSString(Repeat(<<",">>, len - 1 - written))
  ELSE Concat(JSString(Repeat(<<",">>, IndexVal(keys[n]) - written)),
              Concat(ElementText(E, Get(E, v, keys[n])),
                     JoinFrom(E, v, keys, n + 1, IndexVal(keys[n]), len)))

\* Array.prototype.join.call(v) with the length len; a text beyond the
\* longest string is a RangeError
JoinOf(E, v, len) ==
  IF IsThrow(len) THEN len
  ELSE IF len.val = Zero THEN JSString(<<>>)
  ELSE IF Len(len.val) > 9 \/ IndexVal(len.val) - 1 > MaxStringLength THEN RangeError
  ELSE JoinFrom(E, v, ElementKeys(E, ObjectOf(E, v), len.val), 1, 0, IndexVal(len.val))

\* Array.prototype.toString.call(v): v.join() when v.join is a function,
\* Object.prototype.toString.call(v) when it is none
ArrayToString(E, v, join) ==
  IF join = Fn("Array.prototype", joinKey) THEN JoinOf(E, v, LengthOfArrayLike(E, v))
  ELSE IF join.kind = "function" THEN TypeError
  ELSE JSString(ObjectToString(ObjectOf(E, v)))

\* the outcome of the call of v.toString, which is f
CallToString(E, v, f) ==
  IF f = Fn("Object.prototype", toStringKey) THEN JSString(ObjectToString(ObjectOf(E, v)))
  ELSE IF f = Fn("Array.prototype", toStringKey) THEN ArrayToString(E, v, Get(E, v, joinKey))
  ELSE IF f = Fn("Function.prototype", toStringKey) /\ ObjectOf(E, v).kind = "function"
  THEN JSString(NativeCode(ObjectOf(E, v)))
  ELSE IF f = Fn("String.prototype", toStringKey) /\ v = StringPrototype THEN JSString(<<>>)
  ELSE IF f = Fn("Number.prototype", toStringKey) /\ v = NumberPrototype THEN JSString(Zero)
  ELSE IF f = Fn("Boolean.prototype", toStringKey) /\ v = BooleanPrototype
  THEN JSString(JSFalse.val)
  ELSE TypeError

\* OrdinaryToPrimitive: valueOf, when it is a function, gives the object
\* itself, so that the primitive is what toString gives, and a TypeError
\* is thrown when toString is no function
ToPrimitive(E, v) ==
  IF ~IsObject(v) THEN v ELSE CallToString(E, v, Get(E, v, toStringKey))

\* the text of a primitive
PrimitiveText(p) == IF IsThrow(p) THEN p ELSE JSString(p.val)

\* ToString(v), which is also ToPropertyKey(v)
ToStringIn(E, v) == PrimitiveText(ToPrimitive(E, v))

\* the number of a primitive
PrimitiveNumber(p) ==
  IF IsThrow(p) \/ p.kind = "number" THEN p
  ELSE IF p.kind = "undefined" THEN JSNumber(NaNText)
  ELSE IF p.kind = "string" THEN StringToNumber(p.val)
  ELSE IF p = JSTrue THEN JSNumber(<<"1">>)
  ELSE JSNumber(Zero)

\* ToNumber(v)
ToNumber(E, v) == PrimitiveNumber(ToPrimitive(E, v))

\* String(v) where no built-in object was given a property
JSToString(v) == ToStringIn(NoEnv, v)

\* the number of the text n is greater than 2
NumberAboveTwo(n) ==
  /\ n # NaNText
  /\ n[1] # "-"
  /\ \/ n = Infinity
     \/ Contains(n, "+")
     \/ /\ ~Contains(n, "e")
        /\ \/ DigitsLess(<<"2">>, SubSeq(n, 1, SkipUntil(n, 1, {"."}) - 1))
           \/ n[1] = "2" /\ At(n, 2) = "."

\* a number, or the error of its making, as the outcome of n > 2
AboveTwo(n) ==
  IF IsThrow(n) THEN n ELSE IF NumberAboveTwo(n.val) THEN JSTrue ELSE JSFalse

\* x > 2 of a JavaScript value x
GreaterThanTwo(E, v) == AboveTwo(ToNumber(E, v))

----------------------------------------------------------------------------
(* Assignment, in sloppy mode: an assignment that the object refuses does  *)
(* nothing.                                                                *)

\* a new object on the heap, and the value that names it
Alloc(E, o) == Done([E EXCEPT !.heap = Append(@, o)], JSRef(Len(E.heap) + 1))

\* the prototype an object has when it was given none
DefaultProto(o) == ProtoOf([o EXCEPT !.proto = <<>>])

\* the setter of __proto__: the prototype of the object o, which v names,
\* becomes val, when val is an object or null
WithProto(E, v, o, val) ==
  IF ~IsObject(val) /\ val.kind # "null" THEN Done(E, v)
  ELSE IF o.code = "%Object.prototype%"
  THEN Done(E, IF val.kind = "null" THEN v ELSE TypeError)
  ELSE Store(E, v, [o EXCEPT !.proto = IF val = DefaultProto(o) THEN <<>> ELSE <<val>>])

\* ArraySetLength: the length must be an integer of 0..2^32-1; the
\* elements from the new length on are deleted
SetLength(E, v, o, n) ==
  IF IsThrow(n) THEN Done(E, n)
  ELSE IF ~IsArrayLength(n.val) THEN Done(E, RangeError)
  ELSE LET Keep(p) == ~IsArrayIndex(p.name) \/ DigitsLess(p.name, n.val) IN
       Store(E, v, [o EXCEPT !.val = n.val, !.props = SelectSeq(o.props, Keep)])

\* CreateDataProperty: an element at or beyond the length of an array
\* makes the length the index and one
DefineOwn(E, v, o, key, val) ==
  Store(E, v,
        [o EXCEPT !.props = SetProp(@, key, val),
                  !.val = IF o.kind = "array" /\ IsArrayIndex(key) /\ ~DigitsLess(key, o.val)
                          THEN Increment(key) ELSE @])

\* OrdinarySet when the property found, f, is not among the props of o
SetFound(E, v, o, key, val, f) ==
  IF f.found = "thrower" THEN Done(E, TypeError)
  ELSE IF f.found = "proto" THEN WithProto(E, v, o, val)
  ELSE IF f.found = "data" /\ ~f.writable THEN Done(E, v)
  ELSE DefineOwn(E, v, o, key, val)

\* OrdinarySet on the object o, which v names
SetOwn(E, v, o, key, val) ==
  IF o.kind = "array" /\ key = LengthKey THEN SetLength(E, v, o, ToNumber(E, val))
  ELSE IF HasProp(o.props, key) THEN Store(E, v, [o EXCEPT !.props = SetProp(@, key, val)])
  ELSE SetFound(E, v, o, key, val, FindFrom(E, o, key, OwnBuiltin(o, key)))

\* v[key] = val: the realm and the heap afterwards with the value v (as it
\* is afterwards, when it is an object written in the value), or with the
\* error thrown.  A primitive takes no property.
Set(E, v, key, val) ==
  IF IsThrow(v) THEN Done(E, v)
  ELSE IF v.kind \in {"undefined", "null"} THEN Done(E, TypeError)
  ELSE IF ~IsObject(v) THEN Done(E, v)
  ELSE SetOwn(E, v, ObjectOf(E, v), key, val)

\* v[key] = val where no built-in object was given a property: the value
\* v afterwards, or the error thrown
Assign(v, key, val) == Set(NoEnv, v, key, val).v

\* delete v[key] of an own property
Delete(E, v, key) ==
  Store(E, v, [ObjectOf(E, v) EXCEPT !.props = DeleteProp(@, key)])

\* arr.push(value) with the length len of arr
PushAt(E, arr, value, len) ==
  IF IsThrow(len) THEN Done(E, len)
  ELSE IF ~IsArrayIndex(len.val) THEN Done(E, RangeError)
  ELSE Set(E, arr, len.val, value)

\* arr.push(value) on an array: a TypeError when arr.push is no function
Push(E, arr, value) ==
  IF Get(E, arr, pushKey) # Fn("Array.prototype", pushKey) THEN Done(E, TypeError)
  ELSE PushAt(E, arr, value, LengthOfArrayLike(E, arr))

\* Array.isArray(v): a TypeError when Array.isArray is no function
ArrayIsArray(E, v) ==
  IF Get(E, Ctor(<<"A", "r", "r", "a", "y">>), isArrayKey) # Fn("Array", isArrayKey)
  THEN TypeError
  ELSE IF ObjectOf(E, v).kind = "array" THEN JSTrue
  ELSE JSFalse

\* Object.keys is the function it was
KeysIntact(E) ==
  Get(E, Ctor(<<"O", "b", "j", "e", "c", "t">>), keysKey) = Fn("Object", keysKey)

\* Object.keys(o): the names of the own enumerable properties of o (a
\* property that a built-in object has of itself is not enumerable)
NamesOf(props) == [n \in 1..Len(props) |-> props[n].name]

KeysOf(o) ==
  LET Own(p) == OwnBuiltin(Stub(o), p.name).found = "none" IN
  NamesOf(IF IsIntrinsic(o) THEN SelectSeq(o.props, Own) ELSE o.props)

RECURSIVE Promote(_, _)
RECURSIVE PromoteProps(_, _, _, _)
RECURSIVE PromoteNext(_, _, _, _)
RECURSIVE PromoteNode(_, _)
RECURSIVE PromoteProto(_, _)

\* the properties props[n..] with their values on the heap
PromoteProps(E, props, n, acc) ==
  IF n > Len(props) THEN Done(E, acc)
  ELSE PromoteNext(props, n, acc, Promote(E, props[n].v))

PromoteNext(props, n, acc, r) ==
  PromoteProps(r.env, props, n + 1, Append(acc, Prop(props[n].name, r.v)))

\* the prototype o was given, on the heap
PromoteProto(o, r) == Done(r.env, [o EXCEPT !.proto = <<r.v>>])

\* the object o with its properties r.v, and its prototype on the heap
PromoteNode(o, r) ==
  IF o.proto = <<>> THEN Done(r.env, [o EXCEPT !.props = r.v])
  ELSE PromoteProto([o EXCEPT !.props = r.v], Promote(r.env, o.proto[1]))

\* an object that is on the heap, and the value that names it
Allocated(r) == Alloc(r.env, r.v)

\* the value v with the objects written in it put on the heap: the heap,
\* and the value that names v there
Promote(E, v) ==
  IF v.kind \notin {"object", "array"} \/ IsIntrinsic(v) THEN Done(E, v)
  ELSE Allocated(PromoteNode(v, PromoteProps(E, v.props, 1, <<>>)))

\* a built-in object, the objects it holds on the heap, in the realm
PutEntry(r) == [r.env EXCEPT !.realm = PutRealm(@, r.v)]

RECURSIVE PromoteRealm(_, _)
\* the objects held by the built-in objects from the n-th on put on the
\* heap
PromoteRealm(E, n) ==
  IF n > Len(E.realm) THEN E
  ELSE PromoteRealm(PutEntry(PromoteNode(E.realm[n], PromoteProps(E, E.realm[n].props, 1, <<>>))),
                    n + 1)

RECURSIVE Materialize(_, _)
\* the value v with the objects it names on the heap written in it
Materialize(E, v) ==
  IF v.kind = "ref" THEN Materialize(E, E.heap[RefId(v)])
  ELSE IF v.kind \in {"object", "array", "function"}
  THEN [v EXCEPT !.props = [n \in 1..Len(v.props) |->
                              Prop(v.props[n].name, Materialize(E, v.props[n].v))],
                 !.proto = [n \in 1..Len(v.proto) |-> Materialize(E, v.proto[n])]]
  ELSE v

\* the built-in objects that were given a property, the objects they hold
\* written in them
RealmOf(E) == [n \in 1..Len(E.realm) |-> Materialize(E, E.realm[n])]

----------------------------------------------------------------------------
(* JSON.stringify *)

\* the halves of a character beyond the Basic Multilingual Plane
HighSurrogates ==
  {"U+D" \o HexUpper[a] \o HexUpper[b] \o HexUpper[c] : a \in 9..12, b \in 1..16, c \in 1..16}

LowSurrogates ==
  {"U+D" \o HexUpper[a] \o HexUpper[b] \o HexUpper[c] : a \in 13..16, b \in 1..16, c \in 1..16}

\* the escape \udxxx of a half that has no other half
SurrogateEscape(ch) ==
  LET t == CHOOSE t \in (9..16) \X (1..16) \X (1..16) :
             ch = "U+D" \o HexUpper[t[1]] \o HexUpper[t[2]] \o HexUpper[t[3]] IN
  <<"\\", "u", "d", HexDigits[t[1]], HexDigits[t[2]], HexDigits[t[3]]>>

RECURSIVE QuoteFrom(_, _)
\* QuoteJSONString: the characters of a string, escaped
QuoteFrom(s, n) ==
  IF n > Len(s) THEN <<>>
  ELSE IF s[n] \in {"\"", "\\"} THEN <<"\\", s[n]>> \o QuoteFrom(s, n + 1)
  ELSE IF s[n] = "\n" THEN <<"\\", "n">> \o QuoteFrom(s, n + 1)
  ELSE IF s[n] = "\r" THEN <<"\\", "r">> \o QuoteFrom(s, n + 1)
  ELSE IF s[n] = "\t" THEN <<"\\", "t">> \o QuoteFrom(s, n + 1)
  ELSE IF s[n] = "\f" THEN <<"\\", "f">> \o QuoteFrom(s, n + 1)
  ELSE IF s[n] = CharOfCode(0, 8) THEN <<"\\", "b">> \o QuoteFrom(s, n + 1)
  ELSE IF s[n] \in ControlChars
  THEN <<"\\", "u", "0", "0", HexDigits[ControlCode(s[n])[1] + 1],
         HexDigits[ControlCode(s[n])[2] + 1]>> \o QuoteFrom(s, n + 1)
  ELSE IF s[n] \in HighSurrogates /\ At(s, n + 1) \in LowSurrogates
  THEN <<s[n], s[n + 1]>> \o QuoteFrom(s, n + 2)
  ELSE IF s[n] \in HighSurrogates \cup LowSurrogates
  THEN SurrogateEscape(s[n]) \o QuoteFrom(s, n + 1)
  ELSE <<s[n]>> \o QuoteFrom(s, n + 1)

Quote(s) == <<"\"">> \o QuoteFrom(s, 1) \o <<"\"">>

IsFinite(v) ==
  v.val \notin {Infinity, <<"-">> \o Infinity, NaNText}

RECURSIVE StringifyText(_, _)
RECURSIVE StringifyItems(_, _, _, _, _, _)
RECURSIVE StringifyProps(_, _, _, _, _)

\* the text "null" for each of the elements from..(to - 1) that an array
\* has not, with the commas between the elements
NullsBetween(from, to) ==
  IF to <= from THEN <<>>
  ELSE IF from = 0 THEN Tail(Repeat(<<",", "n", "u", "l", "l">>, to))
  ELSE Repeat(<<",", "n", "u", "l", "l">>, to - from)

\* an element in the text of an array: undefined and a function are null
ItemText(E, e) ==
  IF e.kind \in {"undefined", "function"} THEN JSString(JSNull.val) ELSE StringifyText(E, e)

\* the elements of the indices keys[n..], `next` being the index of the
\* next element to write
StringifyItems(E, v, keys, n, next, len) ==
  IF n > Len(keys) THEN JSString(NullsBetween(next, len))
  ELSE Concat(JSString(NullsBetween(next, IndexVal(keys[n]))
                         \o (IF IndexVal(keys[n]) > 0 THEN <<",">> ELSE <<>>)),
              Concat(ItemText(E, Get(E, v, keys[n])),
                     StringifyItems(E, v, keys, n + 1, IndexVal(keys[n]) + 1, len)))

\* the members of an object from the n-th on: undefined and a function
\* are left out
StringifyProps(E, v, names, n, first) ==
  IF n > Len(names) THEN JSString(<<>>)
  ELSE IF Get(E, v, names[n]).kind \in {"undefined", "function"}
  THEN StringifyProps(E, v, names, n + 1, first)
  ELSE Concat(JSString((IF first THEN <<>> ELSE <<",">>) \o Quote(names[n]) \o <<":">>),
              Concat(StringifyText(E, Get(E, v, names[n])),
                     StringifyProps(E, v, names, n + 1, FALSE)))

\* the text of an array of the length len: a text beyond the longest
\* string is a RangeError
StringifyArray(E, v, len) ==
  IF IsThrow(len) THEN len
  ELSE IF Len(len.val) > 9 \/ 2 * IndexVal(len.val) > MaxStringLength THEN RangeError
  ELSE IF 5 * (IndexVal(len.val) - Len(ElementKeys(E, ObjectOf(E, v), len.val))) > MaxStringLength
  THEN RangeError
  ELSE Concat(JSString(<<"[">>),
              Concat(StringifyItems(E, v, ElementKeys(E, ObjectOf(E, v), len.val), 1, 0,
                                    IndexVal(len.val)),
                     JSString(<<"]">>)))

\* SerializeJSONProperty of a value that is neither undefined nor a
\* function
StringifyText(E, v) ==
  IF v.kind = "string" THEN JSString(Quote(v.val))
  ELSE IF v.kind = "number" THEN JSString(IF IsFinite(v) THEN v.val ELSE JSNull.val)
  ELSE IF ~IsObject(v) THEN JSString(v.val)
  ELSE IF ObjectOf(E, v).kind = "array" THEN StringifyArray(E, v, LengthOfArrayLike(E, v))
  ELSE Concat(JSString(<<"{">>),
              Concat(StringifyProps(E, v, KeysOf(ObjectOf(E, v)), 1, TRUE), JSString(<<"}">>)))

\* JSON.stringify(v): a string, undefined for undefined and for a
\* function, or the error thrown
JSONstringify(E, v) ==
  IF v.kind \in {"undefined", "function"} THEN JSUndefined ELSE StringifyText(E, v)

----------------------------------------------------------------------------
(* new Date(value).getTime() *)

RECURSIVE LongDiv(_, _)
\* the days and the milliseconds of the day of the number of milliseconds
\* of which the first k characters of s are the digits
LongDiv(s, k) ==
  IF k = 0 THEN <<0, 0>>
  ELSE LET r == LongDiv(s, k - 1)
           m == 10 * r[2] + DigitVal(s[k]) IN
       <<10 * r[1] + (m \div MsPerDay), m % MsPerDay>>

\* the time value of a number: TimeClip(ToIntegerOrInfinity(number))
TimeOfNumber(text) ==
  LET neg == text # <<>> /\ text[1] = "-"
      body == IF neg THEN Tail(text) ELSE text
      int == SubSeq(body, 1, SkipUntil(body, 1, {"."}) - 1)
      dm == LongDiv(int, Len(int)) IN
  IF ~IsFinite(JSNumber(text)) THEN NaN
  ELSE IF Contains(body, "e") THEN (IF Contains(body, "+") THEN NaN ELSE Num(0))
  ELSE IF Len(int) > 16 THEN NaN
  ELSE TimeClip(IF neg THEN Time(-dm[1], -dm[2]) ELSE Time(dm[1], dm[2]))

\* the outcome of new Date(v).getTime(): the error thrown, or the time
Timed(err, t) == [err |-> err, t |-> t]

\* the time value of the primitive that ToPrimitive made of the value
TimeOfPrimitive(p, local) ==
  IF IsThrow(p) THEN Timed(p, NaN)
  ELSE IF p.kind = "string" THEN Timed(JSUndefined, DateParse(p.val, local))
  ELSE Timed(JSUndefined, TimeOfNumber(PrimitiveNumber(p).val))

\* new Date(v).getTime() on a host of which the local time is `local`
\* seconds east of UTC: a string is parsed, an object is taken as its
\* primitive, any other value is a number of milliseconds
DateGetTime(E, v, local) == TimeOfPrimitive(ToPrimitive(E, v), local)
----------------------------------------------------------------------------
(* The ini package: ini.parse (decode) and ini.encode, with their helpers  *)
(* isQuoted, safe, unsafe and dotSplit.  The package is not in strict      *)
(* mode.  decode works on the heap: out is the first object of it, and     *)
(* every object that the text makes is one of its own.                     *)

isQuoted(val) ==
  /\ Len(val) >= 1
  /\ \/ val[1] = "\"" /\ val[Len(val)] = "\""
     \/ val[1] = "'" /\ val[Len(val)] = "'"

RECURSIVE EscapeFrom(_, _)
\* val.replace(/;/g, '\;').replace(/#/g, '\\#')
EscapeFrom(val, n) ==
  IF n > Len(val) THEN <<>>
  ELSE (IF val[n] \in {";", "#"} THEN <<"\\", val[n]>> ELSE <<val[n]>>)
         \o EscapeFrom(val, n + 1)

\* ini's safe(): what is written for a key or a value (undefined when
\* JSON.stringify gives undefined), or the error thrown
safe(E, v) ==
  IF \/ v.kind # "string"
     \/ \E n \in 1..Len(v.val) : v.val[n] \in {"=", "\r", "\n"}
     \/ (Len(v.val) >= 1 /\ v.val[1] = "[")
     \/ (Len(v.val) > 1 /\ isQuoted(v.val))
     \/ v.val # Trim(v.val)
  THEN JSONstringify(E, v)
  ELSE JSString(EscapeFrom(v.val, 1))

RECURSIVE UnescapeFrom(_, _, _)
\* the walk of unsafe() over an unquoted value: up to the first ";" or "#"
\* that is not escaped
UnescapeFrom(val, n, esc) ==
  IF n > Len(val) THEN (IF esc THEN <<"\\">> ELSE <<>>)
  ELSE IF esc
       THEN (IF val[n] \in {"\\", ";", "#"} THEN <<val[n]>> ELSE <<"\\", val[n]>>)
              \o UnescapeFrom(val, n + 1, FALSE)
       ELSE IF val[n] \in {";", "#"} THEN <<>>
       ELSE IF val[n] = "\\" THEN UnescapeFrom(val, n + 1, TRUE)
       ELSE <<val[n]>> \o UnescapeFrom(val, n + 1, FALSE)

\* try { val = JSON.parse(val) } catch (_) {}: json is what JSON.parse made
\* of the text
parsedOrText(json, text) == IF IsThrow(json) THEN JSString(text) ELSE json

\* a quoted text loses its single quotes and is read as JSON
unsafeQuoted(text) == parsedOrText(JSONparse(text), text)

\* unsafe() after its trim
unsafeTrimmed(val) ==
  IF ~isQuoted(val) THEN JSString(Trim(UnescapeFrom(val, 1, FALSE)))
  ELSE unsafeQuoted(IF val[1] = "'" THEN SubSeq(val, 2, Len(val) - 1) ELSE val)

\* ini's unsafe(): the value a written text stands for.  A quoted text is
\* read as JSON (without its single quotes), and kept when it is none.
unsafe(raw) == unsafeTrimmed(Trim(raw))

RECURSIVE ReplaceAll(_, _, _, _)
\* str.replace(/pat/g, rep) of a pattern that is a text, from index n on
ReplaceAll(str, n, pat, rep) ==
  IF n > Len(str) THEN <<>>
  ELSE IF HasWord(str, n, pat) THEN rep \o ReplaceAll(str, n + Len(pat), pat, rep)
  ELSE <<str[n]>> \o ReplaceAll(str, n + 1, pat, rep)

RECURSIVE Split(_, _, _)
\* str.split(c), from index n on
Split(str, n, c) ==
  IF SkipUntil(str, n, {c}) > Len(str) THEN <<SubSeq(str, n, Len(str))>>
  ELSE <<SubSeq(str, n, SkipUntil(str, n, {c}) - 1)>> \o Split(str, SkipUntil(str, n, {c}) + 1, c)

\* the character that stands for an escaped dot while dotSplit splits
DotMark == CharOfCode(0, 1)

\* the text that stands for that character while dotSplit splits
DotMarkLiteral ==
  <<CharOfCode(0, 2), "L", "I", "T", "E", "R", "A", "L", "\\", "1",
    "L", "I", "T", "E", "R", "A", "L", CharOfCode(0, 2)>>

\* dotSplit: the parts of a name between the dots that no backslash
\* escapes, the escaped dots kept as they are written
dotSplit(str) ==
  LET parts == Split(ReplaceAll(ReplaceAll(str, 1, <<DotMark>>, DotMarkLiteral), 1,
                                <<"\\", ".">>, <<DotMark>>),
                     1, ".") IN
  [n \in 1..Len(parts) |->
     ReplaceAll(ReplaceAll(parts[n], 1, <<DotMark>>, <<"\\", ".">>), 1,
                DotMarkLiteral, <<DotMark>>)]

\* l.replace(/\\\./g, '.')
UnescapeDots(str) == ReplaceAll(str, 1, <<"\\", ".">>, <<".">>)

RECURSIVE JoinDots(_, _)
\* parts.join('\\.')
JoinDots(parts, n) ==
  IF n > Len(parts) THEN <<>>
  ELSE (IF n > 1 THEN <<"\\", ".">> ELSE <<>>) \o parts[n] \o JoinDots(parts, n + 1)

LineBreaks == {"\r", "\n"}

RECURSIVE SplitLines(_, _)
\* str.split(/[\r\n]+/g), from index n on
SplitLines(str, n) ==
  LET e == SkipUntil(str, n, LineBreaks)
      next == SkipWhile(str, e, LineBreaks) IN
  IF e > Len(str) THEN <<SubSeq(str, n, Len(str))>>
  ELSE <<SubSeq(str, n, e - 1)>> \o SplitLines(str, next)

\* the object that decode returns
Out == JSRef(1)

\* the state of decode: the realm and the heap, the value of p and the
\* error that ended the parse
Decoding(env, p, err) == [env |-> env, p |-> p, err |-> err]

\* decode ended by the error err
Stopped(st, err) == [st EXCEPT !.err = err]

\* decode after an assignment that left r
Assigned(st, r) ==
  IF IsThrow(r.v) THEN [st EXCEPT !.env = r.env, !.err = r.v] ELSE [st EXCEPT !.env = r.env]

\* p = {}
Detached(st, a) == [st EXCEPT !.env = a.env, !.p = a.v]

\* p = out[section] = value
Opened(st, name, E, value) == [Assigned(st, Set(E, Out, name, value)) EXCEPT !.p = value]

\* p = out[section] = {}, the new object being a.v
OpenedNew(st, name, a) == Opened(st, name, a.env, a.v)

\* p = out[section] = out[section] || {}, old being out[section]
OpenOld(st, name, old) ==
  IF Falsy(old) THEN OpenedNew(st, name, Alloc(st.env, JSObject(<<>>)))
  ELSE Opened(st, name, st.env, old)

\* the section of the property key name
OpenNamed(st, name) ==
  IF IsThrow(name) THEN Stopped(st, name) ELSE OpenOld(st, name.val, Get(st.env, Out, name.val))

\* a section: the section __proto__ is an object out of out
OpenSection(st, section) ==
  IF section = JSString(ProtoKey) THEN Detached(st, Alloc(st.env, JSObject(<<>>)))
  ELSE OpenNamed(st, ToStringIn(st.env, section))

\* a line "[section]"
DecodeSection(st, text) == OpenSection(st, unsafe(text))

\* the words true, false and null are read as JSON
wordOf(raw) ==
  IF raw = JSString(JSTrue.val) THEN JSTrue
  ELSE IF raw = JSString(JSFalse.val) THEN JSFalse
  ELSE IF raw = JSString(JSNull.val) THEN JSNull
  ELSE raw

\* p[key] = a.v, a new object
AssignNew(st, name, a) == Assigned(st, Set(a.env, st.p, name, a.v))

\* else if (!Array.isArray(p[key])) p[key] = [p[key]]
Wrapped(st, name, old, isArray) ==
  IF IsThrow(isArray) THEN Stopped(st, isArray)
  ELSE IF isArray = JSTrue THEN st
  ELSE AssignNew(st, name, Alloc(st.env, JSArray(<<old>>, <<>>)))

\* if (!p[key]) p[key] = []
\* else if (!Array.isArray(p[key])) p[key] = [p[key]]
MakeArray(st, name, old) ==
  IF IsThrow(old) THEN Stopped(st, old)
  ELSE IF Falsy(old) THEN AssignNew(st, name, Alloc(st.env, JSArray(<<>>, <<>>)))
  ELSE Wrapped(st, name, old, ArrayIsArray(st.env, old))

\* if (Array.isArray(p[key])) p[key].push(value); else p[key] = value,
\* r being the value on the heap
StoreValue(st, name, cur, isArray, r) ==
  IF IsThrow(isArray) THEN Stopped(st, isArray)
  ELSE IF isArray = JSTrue THEN Assigned(st, Push(r.env, cur, r.v))
  ELSE Assigned(st, Set(r.env, st.p, name, r.v))

\* the last statement of a key line, cur being p[key]
PushOrSetAt(st, name, value, cur) ==
  IF IsThrow(cur) THEN Stopped(st, cur)
  ELSE StoreValue(st, name, cur, ArrayIsArray(st.env, cur), Promote(st.env, value))

PushOrSet(st, name, value) ==
  IF IsThrow(st.err) THEN st ELSE PushOrSetAt(st, name, value, Get(st.env, st.p, name))

\* a key that ends in "[]", name being the key without them
Bracketed(st, name, value) ==
  IF name = ProtoKey THEN st
  ELSE PushOrSet(MakeArray(st, name, Get(st.env, st.p, name)), name, value)

\* a key without brackets, name being the property key it stands for
Named(st, name, value) ==
  IF IsThrow(name) THEN Stopped(st, name) ELSE PushOrSet(st, name.val, value)

\* a key, long being key.length > 2: key.slice(-2) is a TypeError on an
\* object, and no text on an array
KeyOfLength(st, key, value, long) ==
  IF IsThrow(long) THEN Stopped(st, long)
  ELSE IF long = JSTrue /\ key.kind = "object" THEN Stopped(st, TypeError)
  ELSE IF /\ long = JSTrue /\ key.kind = "string"
          /\ SubSeq(key.val, Len(key.val) - 1, Len(key.val)) = <<"[", "]">>
  THEN Bracketed(st, SubSeq(key.val, 1, Len(key.val) - 2), value)
  ELSE Named(st, ToStringIn(st.env, key), value)

\* a line of which the key is read as key and the value as value
AssignKey(st, key, value) ==
  IF key = JSString(ProtoKey) THEN st
  ELSE IF key.kind = "null" THEN Stopped(st, TypeError)
  ELSE KeyOfLength(st, key, value, GreaterThanTwo(st.env, Get(st.env, key, LengthKey)))

\* a line "key" or "key=value"
DecodeKey(st, keyText, hasValue, valueText) ==
  AssignKey(st, unsafe(keyText), IF hasValue THEN wordOf(unsafe(valueText)) ELSE JSTrue)

\* one line of the text: /^\[([^\]]*)\]$|^([^=]+)(=(.*))?$/i
DecodeLine(st, line) ==
  LET first == SkipWhile(line, 1, WhiteSpaceChars)
      eq == SkipUntil(line, 1, {"="}) IN
  IF line = <<>> \/ At(line, first) \in {";", "#"} THEN st
  ELSE IF /\ Len(line) >= 2 /\ line[1] = "[" /\ line[Len(line)] = "]"
          /\ \A n \in 2..(Len(line) - 1) : line[n] # "]"
  THEN DecodeSection(st, SubSeq(line, 2, Len(line) - 1))
  ELSE IF eq = 1 \/ \E n \in (eq + 1)..Len(line) : line[n] \in {"U+2028", "U+2029"} THEN st
  ELSE DecodeKey(st, SubSeq(line, 1, eq - 1), eq <= Len(line),
                 SubSeq(line, eq + 1, Len(line)))

RECURSIVE ParseFrom(_, _, _)
\* lines.forEach(...) of decode
ParseFrom(lines, n, st) ==
  IF n > Len(lines) \/ IsThrow(st.err) THEN st
  ELSE ParseFrom(lines, n + 1, DecodeLine(st, lines[n]))

\* p = p[part], v being p[part]
StepInto(st, v) == IF IsThrow(v) THEN Stopped(st, v) ELSE [st EXCEPT !.p = v]

\* p = p[part] after p[part] = {}
Stepped(st, part) ==
  IF IsThrow(st.err) THEN st ELSE StepInto(st, Get(st.env, st.p, part))

\* if (!p[part] || typeof p[part] !== 'object') p[part] = {}
\* p = p[part]
WalkPart(st, part, cur) ==
  IF IsThrow(cur) THEN Stopped(st, cur)
  ELSE IF Falsy(cur) \/ TypeOf(cur) # "object"
  THEN Stepped(AssignNew(st, part, Alloc(st.env, JSObject(<<>>))), part)
  ELSE [st EXCEPT !.p = cur]

RECURSIVE WalkParts(_, _, _)
\* parts.forEach(...) of decode's filter
WalkParts(st, parts, n) ==
  IF n > Len(parts) \/ IsThrow(st.err) THEN st
  ELSE IF parts[n] = ProtoKey THEN WalkParts(st, parts, n + 1)
  ELSE WalkParts(WalkPart(st, parts[n], Get(st.env, st.p, parts[n])), parts, n + 1)

Last(seq) == seq[Len(seq)]

Front(seq) == SubSeq(seq, 1, Len(seq) - 1)

\* decode's filter as far as it went, and the keys it kept to delete
Nesting(st, dels) == [st |-> st, dels |-> dels]

RECURSIVE NestFrom(_, _, _, _)
RECURSIVE NestKey(_, _, _, _, _)
RECURSIVE NestObject(_, _, _, _, _)
RECURSIVE NestWalked(_, _, _, _, _)

\* decode's filter over the keys of out from the n-th on
NestFrom(st, keys, n, dels) ==
  IF n > Len(keys) \/ IsThrow(st.err) THEN Nesting(st, dels)
  ELSE NestKey(st, keys, n, dels, Get(st.env, Out, keys[n]))

\* if (!out[k] || typeof out[k] !== 'object' || Array.isArray(out[k]))
\*   return false
NestKey(st, keys, n, dels, v) ==
  IF Falsy(v) \/ TypeOf(v) # "object" THEN NestFrom(st, keys, n + 1, dels)
  ELSE NestObject(st, keys, n, dels, ArrayIsArray(st.env, v))

\* a key of out that holds an object: the walk from out over the parts of
\* its name before the last
NestObject(st, keys, n, dels, isArray) ==
  IF IsThrow(isArray) THEN Nesting(Stopped(st, isArray), dels)
  ELSE IF isArray = JSTrue THEN NestFrom(st, keys, n + 1, dels)
  ELSE NestWalked(keys, n, dels, Last(dotSplit(keys[n])),
                  WalkParts([st EXCEPT !.p = Out], Front(dotSplit(keys[n])), 1))

\* if (p === out && nl === l) return false
\* p[nl] = out[k]
NestWalked(keys, n, dels, l, w) ==
  IF IsThrow(w.err) THEN Nesting(w, dels)
  ELSE IF w.p = Out /\ UnescapeDots(l) = l THEN NestFrom(w, keys, n + 1, dels)
  ELSE NestFrom(Assigned(w, Set(w.env, w.p, UnescapeDots(l), Get(w.env, Out, keys[n]))),
                keys, n + 1, Append(dels, keys[n]))

RECURSIVE DeleteFrom(_, _, _)
\* delete out[del] of the keys dels[n..]
DeleteFrom(E, dels, n) ==
  IF n > Len(dels) THEN E ELSE DeleteFrom(Delete(E, Out, dels[n]).env, dels, n + 1)

\* the sections that went into their parent, deleted
Deleted(nested) ==
  IF IsThrow(nested.st.err) THEN nested.st
  ELSE [nested.st EXCEPT !.env = DeleteFrom(@, nested.dels, 1)]

\* decode after its lines: Object.keys(out).filter(...).forEach(...)
Nested(st) ==
  IF IsThrow(st.err) THEN st
  ELSE IF ~KeysIntact(st.env) THEN Stopped(st, TypeError)
  ELSE Deleted(NestFrom(st, KeysOf(ObjectOf(st.env, Out)), 1, <<>>))

\* what a call of the package leaves: the value returned or the error
\* thrown, and the built-in objects that were given a property
CallEnd(v, realm) == [v |-> v, realm |-> realm]

\* the end of decode
DecodeEnd(st) ==
  CallEnd(IF IsThrow(st.err) THEN st.err ELSE Materialize(st.env, Out), RealmOf(st.env))

\* the start of decode: var out = {}, p = out
DecodeStart(realm) ==
  Decoding(PromoteRealm(Env(realm, <<JSObject(<<>>)>>), 1), Out, JSUndefined)

\* ini.parse(str) in a process of which the built-in objects are realm
iniParseIn(realm, str) ==
  DecodeEnd(Nested(ParseFrom(SplitLines(str, 1), 1, DecodeStart(realm))))

\* ini.parse(str) in a process that gave no built-in object a property:
\* the object read, or the error thrown
iniParse(str) == iniParseIn(NoRealm, str).v

RECURSIVE EncodeItems(_, _, _, _, _)
\* val.forEach(...): the lines "key[]=item" of the elements of an array
EncodeItems(E, name, val, keys, n) ==
  IF n > Len(keys) THEN JSString(<<>>)
  ELSE Concat(Concat(safe(E, JSString(name \o <<"[", "]">>)), JSString(<<"=">>)),
              Concat(Concat(safe(E, Get(E, val, keys[n])), JSString(<<"\n">>)),
                     EncodeItems(E, name, val, keys, n + 1)))

\* the lines of an array, len being its length: a TypeError when
\* val.forEach is no function
EncodeArray(E, name, val, len) ==
  IF Get(E, val, forEachKey) # Fn("Array.prototype", forEachKey) THEN TypeError
  ELSE IF IsThrow(len) THEN len
  ELSE EncodeItems(E, name, val, ElementKeys(E, ObjectOf(E, val), len.val), 1)

\* the line or the lines of the key name of which the value is val (none
\* for an object); isArray is val && Array.isArray(val)
EncodeValue(E, name, val, isArray) ==
  IF IsThrow(isArray) THEN isArray
  ELSE IF isArray = JSTrue THEN EncodeArray(E, name, val, LengthOfArrayLike(E, val))
  ELSE IF ~Falsy(val) /\ TypeOf(val) = "object" THEN JSString(<<>>)
  ELSE Concat(Concat(safe(E, JSString(name)), JSString(<<"=">>)),
              Concat(safe(E, val), JSString(<<"\n">>)))

RECURSIVE EncodeScalars(_, _, _, _)
\* the first loop of encode: the lines of the values that are no object
EncodeScalars(E, obj, names, n) ==
  IF n > Len(names) THEN JSString(<<>>)
  ELSE Concat(EncodeValue(E, names[n], Get(E, obj, names[n]),
                          IF Falsy(Get(E, obj, names[n])) THEN JSFalse
                          ELSE ArrayIsArray(E, Get(E, obj, names[n]))),
              EncodeScalars(E, obj, names, n + 1))

\* the key names[n] is one of children
IsChild(E, obj, name) ==
  /\ ~Falsy(Get(E, obj, name))
  /\ TypeOf(Get(E, obj, name)) = "object"
  /\ ObjectOf(E, Get(E, obj, name)).kind # "array"

\* out with the text child of a section after it
WithChild(out, child) ==
  IF IsThrow(child) THEN child
  ELSE Concat(out, JSString((IF out.val # <<>> /\ child.val # <<>> THEN <<"\n">> ELSE <<>>)
                              \o child.val))

RECURSIVE iniEncodeSection(_, _, _)
RECURSIVE EncodeChildren(_, _, _, _, _, _)
RECURSIVE EncodeKeys(_, _, _, _)

\* the second loop of encode: one section for each value that is an object
EncodeChildren(E, obj, names, n, section, out) ==
  IF n > Len(names) \/ IsThrow(out) THEN out
  ELSE IF ~IsChild(E, obj, names[n]) THEN EncodeChildren(E, obj, names, n + 1, section, out)
  ELSE EncodeChildren(E, obj, names, n + 1, section,
                      WithChild(out,
                                iniEncodeSection(E, Get(E, obj, names[n]),
                                                 (IF section # <<>> THEN section \o <<".">>
                                                  ELSE <<>>)
                                                   \o JoinDots(dotSplit(names[n]), 1))))

\* the lines of the section with its header: a section without a line of
\* its own writes none
WithHeader(E, section, lines) ==
  IF IsThrow(lines) \/ section = <<>> \/ lines.val = <<>> THEN lines
  ELSE Concat(Concat(JSString(<<"[">>), safe(E, JSString(section))),
              Concat(JSString(<<"]", "\n">>), lines))

\* encode over the keys names of obj
EncodeKeys(E, obj, names, section) ==
  EncodeChildren(E, obj, names, 1, section,
                 WithHeader(E, section, EncodeScalars(E, obj, names, 1)))

\* encode(obj, {section}): a TypeError when Object.keys is no function
iniEncodeSection(E, obj, section) ==
  IF ~KeysIntact(E) THEN TypeError
  ELSE EncodeKeys(E, obj, KeysOf(ObjectOf(E, obj)), section)

\* ini.encode(obj) in a process of which the built-in objects are realm:
\* the text, or the error thrown
iniEncodeIn(realm, obj) == iniEncodeSection(Env(realm, <<>>), obj, <<>>)

\* ini.encode(obj) in a process that gave no built-in object a property
iniEncode(obj) == iniEncodeIn(NoRealm, obj)

----------------------------------------------------------------------------
(* UTF-8, in which fs.readFile(path, 'utf-8') reads the bytes of the file  *)
(* and fs.writeFile writes a string.  A byte below 0x80 is written as the  *)
(* character of its code, a byte from 0x80 on is the string "0xhh".        *)

\* the characters U+0000..U+007F in the order of their codes
Ascii == [n \in 1..128 |-> CharOfCode((n - 1) \div 16, (n - 1) % 16)]

AsciiSet == { Ascii[n] : n \in 1..128 }

\* the two hexadecimal digits of a number below 256
Hex2(n) == HexUpper[(n \div 16) + 1] \o HexUpper[(n % 16) + 1]

\* the byte of the value n, and the value of the byte b
ByteOf(n) == IF n < 128 THEN Ascii[n + 1] ELSE "0x" \o Hex2(n)

ByteVal(b) == CHOOSE n \in 0..255 : ByteOf(n) = b

\* the character that is the UTF-16 code unit n, and the code unit of the
\* character c
UnitOf(n) ==
  IF n < 256 THEN CharOfCode(n \div 16, n % 16)
  ELSE "U+" \o Hex2(n \div 256) \o Hex2(n % 256)

UnitVal(c) ==
  IF c \in AsciiSet THEN CHOOSE n \in 0..127 : Ascii[n + 1] = c
  ELSE CHOOSE n \in 128..65535 : UnitOf(n) = c

\* U+FFFD, which stands for what is no character
Replacement == UnitOf(65533)

\* the bytes of the code point cp
Utf8OfCode(cp) ==
  IF cp < 128 THEN <<ByteOf(cp)>>
  ELSE IF cp < 2048 THEN <<ByteOf(192 + (cp \div 64)), ByteOf(128 + (cp % 64))>>
  ELSE IF cp < 65536
  THEN <<ByteOf(224 + (cp \div 4096)), ByteOf(128 + ((cp \div 64) % 64)),
         ByteOf(128 + (cp % 64))>>
  ELSE <<ByteOf(240 + (cp \div 262144)), ByteOf(128 + ((cp \div 4096) % 64)),
         ByteOf(128 + ((cp \div 64) % 64)), ByteOf(128 + (cp % 64))>>

\* the code point of the two halves of a character beyond U+FFFF
PairCode(high, low) == 65536 + (UnitVal(high) - 55296) * 1024 + (UnitVal(low) - 56320)

\* the index of the first of the items of s that is not of AsciiSet, a
\* character or a byte of one byte; Len(s) + 1 when there is none
Beyond(s) ==
  IF \A n \in 1..Len(s) : s[n] \in AsciiSet THEN Len(s) + 1
  ELSE CHOOSE n \in 1..Len(s) :
         s[n] \notin AsciiSet /\ \A m \in 1..(n - 1) : s[m] \in AsciiSet

\* the characters s[n] and s[n + 1] are the halves of one character
IsPair(s, n) == s[n] \in HighSurrogates /\ At(s, n + 1) \in LowSurrogates

\* the bytes of the character at s[n]: a half without its other half is
\* written as U+FFFD
Utf8OfChar(s, n) ==
  IF IsPair(s, n) THEN Utf8OfCode(PairCode(s[n], s[n + 1]))
  ELSE IF s[n] \in HighSurrogates \cup LowSurrogates THEN Utf8OfCode(65533)
  ELSE Utf8OfCode(UnitVal(s[n]))

RECURSIVE Utf8From(_, _)
\* the bytes of the characters of s, of which s[n] is the first beyond
\* U+007F
Utf8From(s, n) ==
  IF n > Len(s) THEN s
  ELSE SubSeq(s, 1, n - 1) \o Utf8OfChar(s, n)
         \o Utf8From(SubSeq(s, n + (IF IsPair(s, n) THEN 2 ELSE 1), Len(s)),
                     Beyond(SubSeq(s, n + (IF IsPair(s, n) THEN 2 ELSE 1), Len(s))))

\* Buffer.from(text, 'utf8'), as fs.writeFile makes the bytes of its data
Utf8Encode(text) == Utf8From(text, Beyond(text))

\* the characters of the code point cp
CharsOfCode(cp) ==
  IF cp < 65536 THEN <<UnitOf(cp)>>
  ELSE <<UnitOf(55296 + ((cp - 65536) \div 1024)), UnitOf(56320 + ((cp - 65536) % 1024))>>

\* the byte b[p] is there and its value is one of lo..hi
IsByteIn(b, p, lo, hi) ==
  p <= Len(b) /\ b[p] \notin AsciiSet /\ ByteVal(b[p]) \in lo..hi

\* the bytes that follow a first byte of the value v in one character
Follow(v) ==
  IF v \in 194..223 THEN 1
  ELSE IF v \in 224..239 THEN 2
  ELSE IF v \in 240..244 THEN 3
  ELSE 0

\* the least and the greatest value of the byte after a first byte v
FollowMin(v) == IF v = 224 THEN 160 ELSE IF v = 240 THEN 144 ELSE 128

FollowMax(v) == IF v = 237 THEN 159 ELSE IF v = 244 THEN 143 ELSE 191

\* the six bits that the byte b[p] adds to a code point
SixBits(b, p) == ByteVal(b[p]) - 128

\* the code point of the character of 1 + Follow(v) bytes at b[n]
CodeAt(b, n, v) ==
  IF Follow(v) = 1 THEN (v - 192) * 64 + SixBits(b, n + 1)
  ELSE IF Follow(v) = 2 THEN (v - 224) * 4096 + SixBits(b, n + 1) * 64 + SixBits(b, n + 2)
  ELSE (v - 240) * 262144 + SixBits(b, n + 1) * 4096 + SixBits(b, n + 2) * 64 + SixBits(b, n + 3)

\* how many of the bytes after b[n], of the value v, are of its character
Followers(b, n, v) ==
  IF Follow(v) = 0 \/ ~IsByteIn(b, n + 1, FollowMin(v), FollowMax(v)) THEN 0
  ELSE IF Follow(v) = 1 \/ ~IsByteIn(b, n + 2, 128, 191) THEN 1
  ELSE IF Follow(v) = 2 \/ ~IsByteIn(b, n + 3, 128, 191) THEN 2
  ELSE 3

\* the characters of the bytes at b[n], of which the first has the value
\* v: bytes that are no character, or the beginning of one only, are read
\* as U+FFFD
CharsAt(b, n, v) ==
  IF Follow(v) > 0 /\ Followers(b, n, v) = Follow(v) THEN CharsOfCode(CodeAt(b, n, v))
  ELSE <<Replacement>>

RECURSIVE Utf8Text(_, _)
\* the characters of the bytes of b, of which b[n] is the first from 0x80
\* on
Utf8Text(b, n) ==
  IF n > Len(b) THEN b
  ELSE SubSeq(b, 1, n - 1) \o CharsAt(b, n, ByteVal(b[n]))
         \o Utf8Text(SubSeq(b, n + 1 + Followers(b, n, ByteVal(b[n])), Len(b)),
                     Beyond(SubSeq(b, n + 1 + Followers(b, n, ByteVal(b[n])), Len(b))))

\* buffer.toString('utf-8'), as fs.readFile makes the text of the bytes read
Utf8Decode(bytes) == Utf8Text(bytes, Beyond(bytes))

----------------------------------------------------------------------------
(* The file system under the store path *)

\* what is at the path of the credentials file: whether it is there,
\* whether this user may read and write it, its bytes, and its kind: a
\* file, a directory (which opens, and fails the read with EISDIR), or a
\* file of a device that fails (which opens, and fails the fstat with EIO)
Entry(exists, readable, writable, data, kind) ==
  [exists |-> exists, readable |-> readable, writable |-> writable, data |-> data,
   kind |-> kind]

File(exists, readable, writable, data) == Entry(exists, readable, writable, data, "file")

NoFile == File(FALSE, TRUE, TRUE, <<>>)

\* a file that holds the text
TextFile(text) == File(TRUE, TRUE, TRUE, Utf8Encode(text))

\* the text of the bytes of the file f
TextOf(f) == Utf8Decode(f.data)

\* a directory where the credentials file is to be
Directory == Entry(TRUE, TRUE, TRUE, <<>>, "dir")

\* a file of a device that fails
FailingFile == Entry(TRUE, TRUE, TRUE, <<>>, "failing")

\* what this user may do at the path: search the directories above the
\* file, make dirname(path) when it is not there, create the file in it
Perm(search, mkdir, create) == [search |-> search, mkdir |-> mkdir, create |-> create]

\* what a file-system call ends with: a value, or the code of its error
Outcome(code, data) == [code |-> code, data |-> data]

\* open(path, 'r') of fs.readFile
openRead(f, d, p) ==
  IF ~p.search THEN "EACCES"
  ELSE IF ~d \/ ~f.exists THEN "ENOENT"
  ELSE IF ~f.readable THEN "EACCES"
  ELSE "OK"

\* the fstat of fs.readFile: the size in bytes of a file, 0 for what is no
\* file, or the error
fstat(f) ==
  IF f.kind = "failing" THEN Outcome("EIO", 0)
  ELSE IF f.kind = "file" THEN Outcome("OK", Len(f.data))
  ELSE Outcome("OK", 0)

\* the length of the buffer of fs.readFile with an encoding, when the
\* fstat gave a size, and the length when it gave none
kReadFileBufferLength == 524288

kReadFileUnknownBufferLength == 65536

\* the most bytes that fs.writeFile hands to one write
kWriteFileMaxChunkSize == 524288

AtMost(a, b) == IF a < b THEN a ELSE b

\* the buffer that fs.readFile reads into, the fstat having given size
bufferLength(size) ==
  IF size > 0 THEN AtMost(size, kReadFileBufferLength) ELSE kReadFileUnknownBufferLength

\* the bytes one read of fs.readFile gets, got bytes read before it: as
\* many as the buffer holds, from the position of the descriptor, or those
\* that the file as it is now has from there
readChunk(f, size, got) ==
  SubSeq(f.data, got + 1, AtMost(Len(f.data), got + bufferLength(size)))

\* whether the read that got bytesRead bytes after got others is the last:
\* it got nothing, or the size of the fstat is reached, or the buffer was
\* not filled and the fstat gave a size
lastRead(size, got, bytesRead) ==
  \/ bytesRead = 0
  \/ got + bytesRead = size
  \/ bytesRead # bufferLength(size) /\ size # 0

\* a read of fs.readFile: the bytes, or the error
read(f, size, got) ==
  IF f.kind = "dir" THEN Outcome("EISDIR", <<>>)
  ELSE IF f.kind = "failing" THEN Outcome("EIO", <<>>)
  ELSE Outcome("OK", readChunk(f, size, got))

\* fs.readFile(path, 'utf-8') with no other step between its open and its
\* close: the text, or the error
readFile(f, d, p) ==
  IF openRead(f, d, p) # "OK" THEN Outcome(openRead(f, d, p), <<>>)
  ELSE IF fstat(f).code # "OK" THEN Outcome(fstat(f).code, <<>>)
  ELSE IF f.kind # "file" THEN Outcome(read(f, 0, 0).code, <<>>)
  ELSE Outcome("OK", TextOf(f))

\* fs.mkdir(dirname(path), {recursive: true}): a directory that is there
\* is no error
mkdir(d, p) ==
  IF ~p.search THEN "EACCES"
  ELSE IF d \/ p.mkdir THEN "OK"
  ELSE "EACCES"

\* open(path, 'w') of fs.writeFile
openWrite(f, d, p) ==
  IF ~p.search THEN "EACCES"
  ELSE IF ~d THEN "ENOENT"
  ELSE IF f.exists /\ f.kind = "dir" THEN "EISDIR"
  ELSE IF f.exists /\ f.kind = "failing" THEN "EIO"
  ELSE IF f.exists THEN (IF f.writable THEN "OK" ELSE "EACCES")
  ELSE IF p.create THEN "OK"
  ELSE "EACCES"

\* open(path, 'w') when it succeeds: creates the file or cuts it to length 0
openTrunc(f) ==
  IF f.exists THEN [f EXCEPT !.data = <<>>] ELSE File(TRUE, TRUE, TRUE, <<>>)

\* the bytes that fs.writeFile hands to a write, written bytes of data
\* having been written
writeChunk(data, written) ==
  SubSeq(data, written + 1, AtMost(Len(data), written + kWriteFileMaxChunkSize))

\* a write of fs.writeFile: the bytes at the position of the descriptor in
\* the file as it is now, after zero bytes where the file ends before it
write(f, position, bytes) ==
  [f EXCEPT !.data =
     SubSeq(f.data, 1, AtMost(position, Len(f.data)))
       \o [n \in 1..(position - Len(f.data)) |-> ByteOf(0)]
       \o bytes
       \o SubSeq(f.data, position + Len(bytes) + 1, Len(f.data))]

----------------------------------------------------------------------------
(* loadCredentials and the synchronous part of saveCredentials *)

\* the falsy profile: loadCredentials(path) called without a profile
NoProfile == <<>>

aws_access_key_id ==
  <<"a", "w", "s", "_", "a", "c", "c", "e", "s", "s", "_", "k", "e", "y", "_", "i", "d">>

aws_secret_access_key ==
  <<"a", "w", "s", "_", "s", "e", "c", "r", "e", "t", "_", "a", "c", "c", "e", "s", "s",
    "_", "k", "e", "y">>

aws_session_expiration ==
  <<"a", "w", "s", "_", "s", "e", "s", "s", "i", "o", "n", "_", "e", "x", "p", "i", "r",
    "a", "t", "i", "o", "n">>

aws_session_token ==
  <<"a", "w", "s", "_", "s", "e", "s", "s", "i", "o", "n", "_", "t", "o", "k", "e", "n">>

\* lines 116-120: config[profile] when a profile is given, else config
profileOf(E, config, profile) ==
  IF IsThrow(config) THEN config
  ELSE IF profile # NoProfile THEN Get(E, config, profile)
  ELSE config

\* lines 114-120: what the method makes of config, which ini.parse returned
configOf(parsed, profile) ==
  CallEnd(profileOf(Env(parsed.realm, <<>>), parsed.v, profile), parsed.realm)

\* loadCredentialsIn rethrowing every read error, ENOENT too
loadCredentialsRethrowAll(realm0, r, profile) ==
  IF r.code # "OK" THEN CallEnd(JSThrow(r.code), realm0)
  ELSE configOf(iniParseIn(realm0, r.data), profile)

\* loadCredentialsIn returning undefined on every read error
loadCredentialsAbsentOnError(realm0, r, profile) ==
  IF r.code # "OK" THEN CallEnd(JSUndefined, realm0)
  ELSE configOf(iniParseIn(realm0, r.data), profile)

\* loadCredentials(path, profile), lines 100-121, r being what fs.readFile
\* ended with, in a process of which the built-in objects are realm0: the
\* value returned or the error thrown, and the built-in objects afterwards
loadCredentialsIn(realm0, r, profile) ==
  IF r.code = "ENOENT" THEN CallEnd(JSUndefined, realm0)
  ELSE IF r.code # "OK" THEN CallEnd(JSThrow(r.code), realm0)
  ELSE configOf(iniParseIn(realm0, r.data), profile)

\* loadCredentials(path, profile) in a process that gave no built-in object
\* a property: the value returned, or the error thrown
loadCredentials(r, profile) == loadCredentialsIn(NoRealm, r, profile).v

\* lines 136-139: the four keys of a profile, in the order they are assigned
ProfileProps(c) ==
  << Prop(aws_access_key_id, JSString(c.accessKeyId)),
     Prop(aws_secret_access_key, JSString(c.secretAccessKey)),
     Prop(aws_session_expiration, JSString(toISOString(c.sessionExpiration))),
     Prop(aws_session_token, JSString(c.sessionToken)) >>

\* line 131
orEmpty(loaded) == IF Falsy(loaded) THEN JSObject(<<>>) ELSE loaded

\* the class is in strict mode: an assignment that leaves an error throws it
MergeStep(r) == IF IsThrow(r.v) THEN Done(r.env, r.v) ELSE Done(r.env, JSUndefined)

RECURSIVE AssignKeys(_, _, _, _, _)
\* lines 136-139: credentials[profile].key = value for the keys props[n..],
\* as long as none threw
AssignKeys(d, cred, profile, props, n) ==
  IF n > Len(props) \/ IsThrow(d.v) THEN d
  ELSE AssignKeys(MergeStep(Set(d.env, Get(d.env, cred, profile), props[n].name,
                                props[n].v)),
                  cred, profile, props, n + 1)

\* line 135: credentials[profile] = {}, a.v being the new object
AssignEmpty(cred, profile, a) == MergeStep(Set(a.env, cred, profile, a.v))

\* lines 135-139 on the object cred.v: the value of `credentials`
\* afterwards, or the error thrown
Merged(cred, d) == IF IsThrow(d.v) THEN d.v ELSE Materialize(d.env, cred.v)

MergeInto(cred, profile, props) ==
  Merged(cred, AssignKeys(AssignEmpty(cred.v, profile, Alloc(cred.env, JSObject(<<>>))),
                          cred.v, profile, props, 1))

\* lines 131-139: `credentials` after the merge, loaded being what
\* loadCredentials(path) returned, or the error thrown
MergeProfileIn(realm0, loaded, profile, c) ==
  MergeInto(Promote(Env(realm0, <<>>), orEmpty(loaded)), profile, ProfileProps(c))

\* lines 131-139 in a process that gave no built-in object a property
MergeProfile(loaded, profile, c) == MergeProfileIn(NoRealm, loaded, profile, c)

----------------------------------------------------------------------------
(* Inputs *)

Procs == {1, 2}

\* the profile names of the calls: two sections, and the name of the
\* accessor of Object.prototype that holds the prototype of an object
Profiles == { <<"A">>, <<"B">>, ProtoKey }

Cred(a, s, e, t) ==
  [accessKeyId |-> a, secretAccessKey |-> s, sessionExpiration |-> e, sessionToken |-> t]

\* an expiration d seconds and m milliseconds after the safety delta
ExpTime(d, m) == SESSION_EXPIRATION_DELTA + d * 1000 + m

ExpTimes == { ExpTime(d, m) : d \in (-1)..MaxExpSec, m \in 0..MaxMs }

NowTimes == { s * 1000 + m : s \in 0..MaxNowSec, m \in 0..MaxMs }

CredA == Cred(<<"A", "K", "1">>, <<"s", "/", "K", "+">>, ExpTime(0, 0), <<"t", "k", "=", "=">>)

CredB == Cred(<<"A", "K", "2">>, <<"s", "/", "K", "+">>, ExpTime(1, 1), <<"t", "o", "k">>)

\* the credentials an exchange hands to saveCredentials
StsCredentials ==
  { CredA, CredB,
    Cred(<<"A", "K", "2">>, <<"s", "/", "K", "+">>, ExpTime(0, 0), <<"t", "o", "k">>) }

NoCreds == Cred(<<>>, <<>>, 0, <<>>)

\* the lines of a text of the file
SecLine(name) == <<"[">> \o name \o <<"]", "\n">>

KVLine(k, raw) == k \o <<"=">> \o raw \o <<"\n">>

BlankLine == <<"\n">>

CommentLine == <<";", " ", "s", "e", "t", " ", "b", "y", " ", "h", "a", "n", "d", "\n">>

region == <<"r", "e", "g", "i", "o", "n">>

\* a profile section as another tool writes it: the values as they are
HandWritten(name, c) ==
  SecLine(name)
    \o KVLine(aws_access_key_id, c.accessKeyId)
    \o KVLine(aws_secret_access_key, c.secretAccessKey)
    \o KVLine(aws_session_expiration, toISOString(c.sessionExpiration))
    \o KVLine(aws_session_token, c.sessionToken)

\* a profile section whose expiration line holds the text raw
WithExpiration(name, raw) ==
  SecLine(name)
    \o KVLine(aws_access_key_id, <<"A", "K", "1">>)
    \o KVLine(aws_session_expiration, raw)
    \o KVLine(aws_session_token, <<"t", "o", "k">>)

\* a profile section without an expiration line
WithoutExpiration(name) ==
  SecLine(name)
    \o KVLine(aws_access_key_id, <<"A", "K", "1">>)
    \o KVLine(region, <<"e", "u">>)

\* a profile section written with blanks around "=", a word that ini reads
\* as a boolean, a number in single quotes, which ini reads as a number,
\* and a name with a character of two bytes
Styled(name) ==
  SecLine(name)
    \o aws_access_key_id \o <<" ", "=", " ", "A", "K", "2", "\n">>
    \o KVLine(<<"s", "s", "o">>, <<"t", "r", "u", "e">>)
    \o KVLine(<<"r", "e", "t", "r", "i", "e", "s">>, <<"'", "1", "2", "3", "'">>)
    \o KVLine(<<"o", "w", "n", "e", "r">>, <<"Z", "o", "U+00EB">>)

constructor == <<"c", "o", "n", "s", "t", "r", "u", "c", "t", "o", "r">>

\* a section of the name under which every object has the function Object:
\* ini gives its key to that function
Inherited == SecLine(constructor) \o KVLine(region, <<"e", "u">>)

\* a list of one item and a section of its name, whose key ini gives to the
\* list, where forEach of Array.prototype is looked up
Shadowed ==
  <<"a", "[", "]", "=", "x", "\n">>
    \o SecLine(<<"a">>) \o KVLine(<<"f", "o", "r", "E", "a", "c", "h">>, <<"1">>)

\* the texts the store file starts with
StoreTexts ==
  { <<>>,
    CommentLine \o HandWritten(<<"A">>, CredA),
    HandWritten(<<"A">>, CredA) \o BlankLine \o HandWritten(<<"B">>, CredB),
    \* a key before the first section with a comment after its value, and
    \* a value with an escaped ";"
    KVLine(region, <<"e", "u", " ", ";", "c">>) \o BlankLine \o HandWritten(<<"B">>, CredB)
      \o KVLine(region, <<"u", "\\", ";", "s">>),
    \* a section header without keys
    SecLine(<<"B">>) \o WithoutExpiration(<<"A">>),
    \* a section in two parts, the second with a quoted value
    HandWritten(<<"B">>, CredB) \o WithoutExpiration(<<"A">>)
      \o SecLine(<<"B">>) \o KVLine(aws_session_token, <<"\"", "t", "k", "=", "=", "\"">>),
    Styled(<<"B">>) \o WithoutExpiration(<<"A">>),
    \* a section named as a property that every object has
    Inherited \o HandWritten(<<"B">>, CredB),
    \* a list that is given a key where its method is
    Shadowed \o HandWritten(<<"B">>, CredB) }

AllowAll == Perm(TRUE, TRUE, TRUE)

\* the states the file system starts in, as <<file, dir, perm>>: a file
\* with each of the texts; no file, with its directory, without it, without
\* it where it cannot be made, and with it where no file can be created; a
\* file that cannot be read; a file that cannot be written; a path of
\* which a directory above cannot be searched; a directory at the path;
\* and a file of a device that fails
StoreFiles ==
  { <<TextFile(t), TRUE, AllowAll>> : t \in StoreTexts }
    \cup { <<NoFile, TRUE, AllowAll>>,
           <<NoFile, FALSE, AllowAll>>,
           <<NoFile, FALSE, Perm(TRUE, FALSE, TRUE)>>,
           <<NoFile, TRUE, Perm(TRUE, TRUE, FALSE)>>,
           <<File(TRUE, FALSE, TRUE, Utf8Encode(HandWritten(<<"A">>, CredA))), TRUE,
             AllowAll>>,
           <<File(TRUE, TRUE, FALSE, Utf8Encode(HandWritten(<<"A">>, CredA))), TRUE,
             AllowAll>>,
           <<NoFile, FALSE, Perm(FALSE, TRUE, TRUE)>>,
           <<Directory, TRUE, AllowAll>>,
           <<FailingFile, TRUE, AllowAll>> }

Call(op, profile, c) == [op |-> op, profile |-> profile, creds |-> c]

NoCall == Call("none", NoProfile, NoCreds)

\* the state of a pending fs.readFile: the size the fstat gave, the bytes
\* read so far, and the error of the fstat or of a read ("OK" for none)
Reading(size, data, code) == [size |-> size, data |-> data, code |-> code]

\* no read pending, or none that has come to its fstat
NoRead == Reading(0, <<>>, "OK")

\* expiresAt of a validity result: null, or a number
NullTime == [null |-> TRUE, nan |-> FALSE, d |-> 0, ms |-> 0]

TimeOf(x) == [null |-> FALSE, nan |-> x.nan, d |-> x.d, ms |-> x.ms]

Result(kind, value, isValid, expiresAt) ==
  [kind |-> kind, value |-> value, isValid |-> isValid, expiresAt |-> expiresAt]

NoResult == Result("none", JSUndefined, FALSE, NullTime)

\* a promise resolved with value v
Returned(v) == Result("return", v, FALSE, NullTime)

\* a promise rejected with the error v
Thrown(v) == Result("throw", v, FALSE, NullTime)

\* what an awaited value v makes of the method: it goes on, or it throws
Settled(v) == IF IsThrow(v) THEN Thrown(v) ELSE Returned(v)

\* a resolved validity result {isValid, expiresAt}
Validity(isValid, expiresAt) == Result("return", JSUndefined, isValid, expiresAt)

\* history of the validity checks of one profile: whether a result with
\* isValid false was seen and the clock of the first one, whether a result
\* with isValid true was seen and the expiresAt of the first one
NoChecks == [invalid |-> FALSE, invalidAt |-> 0, valid |-> FALSE, validAt |-> NullTime]

\* no profile followed
NoHistory == [p \in {} |-> NoChecks]

\* the history h after a check at clock t ended with r: a check that threw
\* returned no result
Checked(h, r, t) ==
  IF r.kind # "return" THEN h
  ELSE [invalid |-> h.invalid \/ ~r.isValid,
        invalidAt |-> IF ~r.isValid /\ ~h.invalid THEN t ELSE h.invalidAt,
        valid |-> h.valid \/ r.isValid,
        validAt |-> IF r.isValid /\ ~h.valid THEN r.expiresAt ELSE h.validAt]

\* customSessionDuration when the caller gives none: falsy at line 63
NoDuration == 0

\* a role as assumeRoleWithSAML reads it: name, roleArn, principalArn and
\* the session duration of the SAML response, in seconds
SessionRole(name, roleArn, principalArn, sessionDuration) ==
  [name |-> name, roleArn |-> roleArn, principalArn |-> principalArn,
   sessionDuration |-> sessionDuration]

NoSessionRole == SessionRole("", "", "", NoDuration)

\* stsResponse.Credentials of line 77, holding the values of c
AwsCredentials(c) ==
  [AccessKeyId |-> c.accessKeyId, SecretAccessKey |-> c.secretAccessKey,
   Expiration |-> c.sessionExpiration, SessionToken |-> c.sessionToken]

\* the arguments and locals of assumeRoleWithSAML before it is called, with
\* the history of the invocation: the getRole and assumeRoleWithSAML
\* requests sent, the errors they were rejected with, whether the exchange
\* succeeded and the credentials it issued, the logger.warn calls, the
\* number of fs.writeFile calls, and the file and directory when the method
\* was called
NoAssume ==
  [role |-> NoSessionRole, samlAssertion |-> "", custom |-> NoDuration,
   sessionDuration |-> NoDuration, max |-> NoDuration,
   getRole |-> <<>>, sts |-> <<>>, rejected |-> <<>>, stsOk |-> FALSE,
   issued |-> AwsCredentials(NoCreds),
   warn |-> <<>>, writes |-> 0,
   file |-> NoFile, dir |-> FALSE]

----------------------------------------------------------------------------
(* getSessionExpirationFromCredentials(path, profile), lines 153-177       *)

\* credentials.aws_session_expiration of lines 162 and 168
expirationOf(E, c) == Get(E, c, aws_session_expiration)

\* new Date(credentials.aws_session_expiration).getTime()
\*   - this.sessionExpirationDelta, d being what new Date(...).getTime() gave
adjustedExpiry(d, delta) == NumSub(d.t, Num(delta))

\* lines 168-176 with >= for > in the comparison of line 168
validityAtNotStrict(expiresAt, t) ==
  Validity(NumGt(expiresAt, Num(t)) \/ expiresAt = Num(t), TimeOf(expiresAt))

\* lines 158-176 with >= for > in the comparison of line 168
sessionValidityNotStrict(E, c, t, delta, local) ==
  IF Falsy(c) \/ Falsy(expirationOf(E, c))
  THEN Validity(FALSE, NullTime)
  ELSE IF IsThrow(DateGetTime(E, expirationOf(E, c), local).err)
  THEN Thrown(DateGetTime(E, expirationOf(E, c), local).err)
  ELSE validityAtNotStrict(adjustedExpiry(DateGetTime(E, expirationOf(E, c), local), delta),
                           t)

\* lines 168-176: expiresAt being the expiration less the delta
validityAt(expiresAt, t) ==
  IF NumGt(expiresAt, Num(t)) THEN Validity(TRUE, TimeOf(expiresAt))
  ELSE Validity(FALSE, TimeOf(expiresAt))

\* line 168 on, d being what new Date(...).getTime() gave: a value that
\* has no primitive makes new Date throw
validityOf(d, t, delta) ==
  IF IsThrow(d.err) THEN Thrown(d.err) ELSE validityAt(adjustedExpiry(d, delta), t)

\* lines 158-176: the result for the loaded profile c when Date.now() is t,
\* this.sessionExpirationDelta is delta and the local time of the host is
\* `local` seconds east of UTC, in a process of which the built-in objects
\* are those of E
sessionValidity(E, c, t, delta, local) ==
  IF Falsy(c) THEN Validity(FALSE, NullTime)
  ELSE IF IsThrow(expirationOf(E, c)) THEN Thrown(expirationOf(E, c))
  ELSE IF Falsy(expirationOf(E, c)) THEN Validity(FALSE, NullTime)
  ELSE validityOf(DateGetTime(E, expirationOf(E, c), local), t, delta)

----------------------------------------------------------------------------
(* fs.readFile(path, 'utf-8') of line 104, one action for each of its      *)
(* steps, which other invocations can come between: the open, the fstat,   *)
(* each read, and the close of the file, after which the promise settles.  *)
(* The three methods that load share the steps; what the method makes of   *)
(* the text up to its next await, or to its end, is part of the step that  *)
(* ends the read, and with it what ini.parse makes of the built-in objects *)
(* of the process.  An open that fails leaves no file to close: the read   *)
(* ends with it.                                                           *)

Savers == {"saveCredentials", "assumeRoleWithSAML"}

ReadSteps == {"read_open", "read_fstat", "read_read", "read_close"}

SaveSteps == {"save_mkdir", "save_open", "save_write", "save_close"}

InSave(i) == call[i].op \in Savers /\ pc[i] \in ReadSteps \cup SaveSteps

\* lines 131-141 of a save, merged being `credentials` after line 139 or
\* the error an assignment threw
AfterMerge(i, merged) ==
  IF IsThrow(merged)
  THEN /\ pc' = [pc EXCEPT ![i] = "done"]
       /\ result' = [result EXCEPT ![i] = Thrown(merged)]
       /\ UNCHANGED credentials
  ELSE /\ pc' = [pc EXCEPT ![i] = "save_mkdir"]
       /\ credentials' = [credentials EXCEPT ![i] = merged]
       /\ UNCHANGED result

\* lines 158-176 of a check, c being what the load of line 156 returned in
\* a process of which the built-in objects are realm
AfterCheck(i, realm, c) ==
  /\ pc' = [pc EXCEPT ![i] = "done"]
  /\ credentials' = [credentials EXCEPT ![i] = c]
  /\ result' = [result EXCEPT
       ![i] = sessionValidity(Env(realm, <<>>), c, now, SESSION_EXPIRATION_DELTA, zone)]
  /\ evalNow' = [evalNow EXCEPT ![i] = now]
  /\ hist' = [p \in DOMAIN hist |->
                IF p = call[i].profile THEN Checked(hist[p], result'[i], now) ELSE hist[p]]

\* what the caller of loadCredentials does with what the load ended with
\* until its next await or its end: lines 116-120 of a load, lines 156-176
\* of a check, lines 129-139 of a save
AfterLoad(i, loaded) ==
  /\ builtins' = [builtins EXCEPT ![i] = loaded.realm]
  /\ IF IsThrow(loaded.v)
     THEN /\ pc' = [pc EXCEPT ![i] = "done"]
          /\ result' = [result EXCEPT ![i] = Thrown(loaded.v)]
          /\ UNCHANGED <<credentials, evalNow, hist>>
     ELSE IF call[i].op = "loadCredentials"
     THEN /\ pc' = [pc EXCEPT ![i] = "done"]
          /\ result' = [result EXCEPT ![i] = Returned(loaded.v)]
          /\ UNCHANGED <<credentials, evalNow, hist>>
     ELSE IF call[i].op = "getSessionExpirationFromCredentials"
     THEN AfterCheck(i, loaded.realm, loaded.v)
     ELSE /\ AfterMerge(i, MergeProfileIn(loaded.realm, loaded.v, call[i].profile,
                                          call[i].creds))
          /\ UNCHANGED <<evalNow, hist>>

\* lines 105-120 once fs.readFile has ended with r: a save loads the whole
\* file (line 129), a load and a check the profile they were given
ReadEnd(i, r) ==
  AfterLoad(i, loadCredentialsIn(builtins[i], r, IF call[i].op \in Savers THEN NoProfile
                                              ELSE call[i].profile))

\* ReadOpen creating the file when it is not there
ReadOpenCreating(i) ==
  /\ pc[i] = "read_open"
  /\ IF openRead(file, dir, perm) = "OK"
     THEN /\ pc' = [pc EXCEPT ![i] = "read_fstat"]
          /\ UNCHANGED <<credentials, result, file, builtins, evalNow, hist>>
     ELSE /\ ReadEnd(i, Outcome(openRead(file, dir, perm), <<>>))
          /\ file' = IF file.exists \/ ~dir THEN file ELSE File(TRUE, TRUE, TRUE, <<>>)
  /\ UNCHANGED <<dir, perm, now, call, rd, wr, pre, post, overlapped, committed, seen, rsIn,
                 rsOut, ar, zone>>

\* the open of fs.readFile: a path that cannot be opened ends the read
ReadOpen(i) ==
  /\ pc[i] = "read_open"
  /\ IF openRead(file, dir, perm) = "OK"
     THEN /\ pc' = [pc EXCEPT ![i] = "read_fstat"]
          /\ UNCHANGED <<credentials, result, builtins, evalNow, hist>>
     ELSE ReadEnd(i, Outcome(openRead(file, dir, perm), <<>>))
  /\ UNCHANGED <<file, dir, perm, now, call, rd, wr, pre, post, overlapped, committed, seen,
                 rsIn, rsOut, ar, zone>>

\* the fstat of fs.readFile: the size in bytes of the file as it is now;
\* when it fails the file is closed next
ReadFstat(i) ==
  /\ pc[i] = "read_fstat"
  /\ rd' = [rd EXCEPT ![i] = Reading(fstat(file).data, <<>>, fstat(file).code)]
  /\ pc' = [pc EXCEPT ![i] = IF fstat(file).code = "OK" THEN "read_read" ELSE "read_close"]
  /\ UNCHANGED <<wr, file, dir, perm, now, call, credentials, result, pre, post, overlapped,
                 committed, evalNow, seen, rsIn, rsOut, ar, hist, zone, builtins>>

\* a read of fs.readFile, of at most one buffer: reads follow until one is
\* the last; after the last read, and after one that fails, the file is
\* closed
ReadRead(i) ==
  /\ pc[i] = "read_read"
  /\ IF read(file, rd[i].size, Len(rd[i].data)).code # "OK"
     THEN /\ rd' = [rd EXCEPT ![i].code = read(file, rd[i].size, Len(rd[i].data)).code]
          /\ pc' = [pc EXCEPT ![i] = "read_close"]
     ELSE /\ rd' = [rd EXCEPT ![i].data = @ \o readChunk(file, rd[i].size, Len(rd[i].data))]
          /\ pc' = [pc EXCEPT ![i] =
                      IF lastRead(rd[i].size, Len(rd[i].data),
                                  Len(readChunk(file, rd[i].size, Len(rd[i].data))))
                      THEN "read_close" ELSE "read_read"]
  /\ UNCHANGED <<wr, file, dir, perm, now, call, credentials, result, pre, post, overlapped,
                 committed, evalNow, seen, rsIn, rsOut, ar, hist, zone, builtins>>

\* what fs.readFile settles with once the file is closed: the error of the
\* fstat or of the read, or the text of the bytes read
ReadOutcome(r) ==
  IF r.code # "OK" THEN Outcome(r.code, <<>>) ELSE Outcome("OK", Utf8Decode(r.data))

\* the close of fs.readFile, and what follows the read
ReadClose(i) ==
  /\ pc[i] = "read_close"
  /\ rd' = [rd EXCEPT ![i] = NoRead]
  /\ ReadEnd(i, ReadOutcome(rd[i]))
  /\ UNCHANGED <<wr, file, dir, perm, now, call, pre, post, overlapped, committed, seen,
                 rsIn, rsOut, ar, zone>>

----------------------------------------------------------------------------
(* saveCredentials(path, profile, credentials), lines 127-145, one action  *)
(* for each step: the steps of the read of loadCredentials, fs.mkdir, and  *)
(* the open, the write and the close of fs.writeFile.                      *)

\* lines 127-129, up to the open of the read
CallSave(i, profile, c) ==
  /\ pc[i] = "idle"
  /\ pc' = [pc EXCEPT ![i] = "read_open"]
  /\ call' = [call EXCEPT ![i] = Call("saveCredentials", profile, c)]
  /\ result' = [result EXCEPT ![i] = NoResult]
  /\ pre' = [pre EXCEPT ![i] = file]
  /\ overlapped' = [j \in Procs |->
                      IF j = i THEN \E k \in Procs \ {i} : InSave(k)
                      ELSE overlapped[j] \/ InSave(j)]
  /\ UNCHANGED <<file, dir, perm, now, rd, wr, credentials, post, committed, evalNow, seen,
                 rsIn, rsOut, ar, hist, zone, builtins>>

\* ini.encode(credentials) of line 142, in the process of invocation i
Encoded(i) == iniEncodeIn(builtins[i], credentials[i])

\* the bytes that fs.writeFile is to write
EncodedBytes(i) == Utf8Encode(Encoded(i).val)

\* line 141: fs.mkdir(dirname(path), {recursive: true}), which rejects when
\* the directory is not there and cannot be made; and, once it has
\* resolved, ini.encode(credentials) of line 142, which can throw, and the
\* call of fs.writeFile
SaveMkdir(i) ==
  /\ pc[i] = "save_mkdir"
  /\ IF mkdir(dir, perm) # "OK"
     THEN /\ pc' = [pc EXCEPT ![i] = "done"]
          /\ result' = [result EXCEPT ![i] = Thrown(JSThrow(mkdir(dir, perm)))]
          /\ UNCHANGED <<dir, ar>>
     ELSE IF IsThrow(Encoded(i))
     THEN /\ dir' = TRUE
          /\ pc' = [pc EXCEPT ![i] = "done"]
          /\ result' = [result EXCEPT ![i] = Thrown(Encoded(i))]
          /\ UNCHANGED ar
     ELSE /\ dir' = TRUE
          /\ ar' = [ar EXCEPT ![i].writes = @ + 1]
          /\ pc' = [pc EXCEPT ![i] = "save_open"]
          /\ UNCHANGED result
  /\ UNCHANGED <<file, perm, now, call, rd, wr, credentials, pre, post, overlapped,
                 committed, evalNow, seen, rsIn, rsOut, hist, zone, builtins>>

\* line 142, the open of fs.writeFile, which creates the file or cuts it to
\* length 0: a text without bytes is not written, and the file closed next
SaveOpen(i) ==
  /\ pc[i] = "save_open"
  /\ IF openWrite(file, dir, perm) = "OK"
     THEN /\ file' = openTrunc(file)
          /\ pc' = [pc EXCEPT ![i] = IF EncodedBytes(i) = <<>> THEN "save_close"
                                     ELSE "save_write"]
          /\ UNCHANGED result
     ELSE /\ pc' = [pc EXCEPT ![i] = "done"]
          /\ result' = [result EXCEPT ![i] = Thrown(JSThrow(openWrite(file, dir, perm)))]
          /\ UNCHANGED file
  /\ UNCHANGED <<dir, perm, now, call, rd, wr, credentials, pre, post, overlapped,
                 committed, evalNow, seen, rsIn, rsOut, ar, hist, zone, builtins>>

\* a write of fs.writeFile has written chunk, of remaining bytes that were
\* still to write
Written(i, chunk, remaining) ==
  /\ file' = write(file, wr[i], chunk)
  /\ wr' = [wr EXCEPT ![i] = @ + Len(chunk)]
  /\ pc' = [pc EXCEPT ![i] = IF Len(chunk) < remaining THEN "save_write" ELSE "save_close"]

\* a write of fs.writeFile of the next of bytes
WriteNext(i, bytes) == Written(i, writeChunk(bytes, wr[i]), Len(bytes) - wr[i])

\* line 142, a write of fs.writeFile: the next bytes of the text that
\* ini.encode(credentials) gave, at the position of the descriptor; writes
\* follow until all bytes are written
SaveWrite(i) ==
  /\ pc[i] = "save_write"
  /\ WriteNext(i, EncodedBytes(i))
  /\ UNCHANGED <<dir, perm, now, call, rd, credentials, result, pre, post, overlapped,
                 committed, evalNow, seen, rsIn, rsOut, ar, hist, zone, builtins>>

\* line 142, the close of fs.writeFile, and the return
SaveClose(i) ==
  /\ pc[i] = "save_close"
  /\ post' = [post EXCEPT ![i] = file]
  /\ committed' = file
  /\ pc' = [pc EXCEPT ![i] = "done"]
  /\ result' = [result EXCEPT ![i] = Returned(JSUndefined)]
  /\ hist' = [p \in DOMAIN hist |-> IF p = call[i].profile THEN NoChecks ELSE hist[p]]
  /\ wr' = [wr EXCEPT ![i] = 0]
  /\ UNCHANGED <<file, dir, perm, now, call, rd, credentials, pre, overlapped, evalNow,
                 seen, rsIn, rsOut, ar, zone, builtins>>

----------------------------------------------------------------------------
(* loadCredentials(path, profile) called by itself *)

SaveReturned(i) ==
  pc[i] = "done" /\ call[i].op = "saveCredentials" /\ result[i].kind = "return"

\* lines 100-104, up to the open of the read
CallLoad(i, profile) ==
  /\ pc[i] = "idle"
  /\ pc' = [pc EXCEPT ![i] = "read_open"]
  /\ call' = [call EXCEPT ![i] = Call("loadCredentials", profile, NoCreds)]
  /\ result' = [result EXCEPT ![i] = NoResult]
  /\ pre' = [pre EXCEPT ![i] = committed]
  /\ seen' = [seen EXCEPT ![i] = { k \in Procs : SaveReturned(k) }]
  /\ UNCHANGED <<file, dir, perm, now, rd, wr, credentials, post, overlapped, committed,
                 evalNow, rsIn, rsOut, ar, hist, zone, builtins>>

----------------------------------------------------------------------------
(* Spec: two invocations of the tool on one store path, each running one   *)
(* store operation; their awaits interleave freely.                        *)

NoRoleSet == [roles |-> <<>>, samlAssertion |-> "", customRoleArn |-> ""]

NoRoleResult == [kind |-> "none", roles |-> <<>>, samlAssertion |-> ""]

InitProcs ==
  /\ pc = [i \in Procs |-> "idle"]
  /\ call = [i \in Procs |-> NoCall]
  /\ rd = [i \in Procs |-> NoRead]
  /\ wr = [i \in Procs |-> 0]
  /\ credentials = [i \in Procs |-> JSUndefined]
  /\ result = [i \in Procs |-> NoResult]
  /\ pre = [i \in Procs |-> NoFile]
  /\ post = [i \in Procs |-> NoFile]
  /\ overlapped = [i \in Procs |-> FALSE]
  /\ evalNow = [i \in Procs |-> 0]
  /\ seen = [i \in Procs |-> {}]
  /\ ar = [i \in Procs |-> NoAssume]
  /\ builtins = [i \in Procs |-> NoRealm]

Init ==
  /\ \E fs \in StoreFiles : file = fs[1] /\ dir = fs[2] /\ perm = fs[3]
  /\ committed = file
  /\ now = 0
  /\ InitProcs
  /\ hist = NoHistory
  /\ rsIn = NoRoleSet
  /\ rsOut = NoRoleResult
  /\ zone = 0

Next ==
  \E i \in Procs :
    \/ \E profile \in Profiles, c \in {CredA, CredB} : CallSave(i, profile, c)
    \/ \E profile \in Profiles \cup {NoProfile} : CallLoad(i, profile)
    \/ ReadOpen(i)
    \/ ReadFstat(i)
    \/ ReadRead(i)
    \/ ReadClose(i)
    \/ SaveMkdir(i)
    \/ SaveOpen(i)
    \/ SaveWrite(i)
    \/ SaveClose(i)

Spec == Init /\ [][Next]_vars
----------------------------------------------------------------------------
(* The calls of getSessionExpirationFromCredentials, and what a caller     *)
(* does between its operations                                             *)

\* lines 153-156, up to the open of the read
CallCheck(i, profile) ==
  /\ pc[i] = "idle"
  /\ pc' = [pc EXCEPT ![i] = "read_open"]
  /\ call' = [call EXCEPT
       ![i] = Call("getSessionExpirationFromCredentials", profile, NoCreds)]
  /\ result' = [result EXCEPT ![i] = NoResult]
  /\ UNCHANGED <<file, dir, perm, now, rd, wr, credentials, pre, post, overlapped, committed,
                 evalNow, seen, rsIn, rsOut, ar, hist, zone, builtins>>

\* the caller goes on to its next operation
Return(i) ==
  /\ pc[i] = "done"
  /\ pc' = [pc EXCEPT ![i] = "idle"]
  /\ call' = [call EXCEPT ![i] = NoCall]
  /\ rd' = [rd EXCEPT ![i] = NoRead]
  /\ credentials' = [credentials EXCEPT ![i] = JSUndefined]
  /\ result' = [result EXCEPT ![i] = NoResult]
  /\ pre' = [pre EXCEPT ![i] = NoFile]
  /\ post' = [post EXCEPT ![i] = NoFile]
  /\ evalNow' = [evalNow EXCEPT ![i] = 0]
  /\ seen' = [seen EXCEPT ![i] = {}]
  /\ ar' = [ar EXCEPT ![i] = NoAssume]
  /\ UNCHANGED <<wr, file, dir, perm, now, overlapped, committed, rsIn, rsOut, hist, zone,
                 builtins>>

\* time passes
Tick ==
  /\ \E t \in NowTimes : t > now /\ now' = t
  /\ UNCHANGED <<file, dir, perm, pc, call, rd, wr, credentials, result, pre, post,
                 overlapped, committed, evalNow, seen, rsIn, rsOut, ar, hist, zone, builtins>>

----------------------------------------------------------------------------
(* SpecValidity: one caller running validity checks and saves one after    *)
(* the other on a store that other tools have written, while time passes.  *)

NotADate == <<"s", "o", "o", "n">>

\* the second 31 of the epoch without its milliseconds, and as
\* Date.prototype.toUTCString writes it
ShortISO ==
  <<"1", "9", "7", "0", "-", "0", "1", "-", "0", "1", "T", "0", "0", ":", "0", "0", ":",
    "3", "1", "Z">>

UTCString ==
  <<"T", "h", "u", ",", " ", "0", "1", " ", "J", "a", "n", " ", "1", "9", "7", "0", " ",
    "0", "0", ":", "0", "0", ":", "3", "1", " ", "G", "M", "T">>

\* the second 31 of the day in the local time of the host
LocalISO == SubSeq(ShortISO, 1, Len(ShortISO) - 1)

\* an object that has no primitive, as ini reads it from a quoted text
NoPrimitive ==
  <<"'", "{", "\"", "t", "o", "S", "t", "r", "i", "n", "g", "\"", ":", "1", "}", "'">>

\* the number 0 in single quotes, which ini reads as a number
QuotedZero == <<"'", "0", "'">>

\* expiration lines that are no ISO string of toISOString: no date, dates
\* in other forms, digits (a year), the words ini reads as true and false,
\* and quoted texts that ini reads as the number 0 and as an object
OtherExpirations ==
  { NotADate, ShortISO, UTCString, LocalISO, <<"3", "1", "0", "0", "0">>,
    <<"t", "r", "u", "e">>, <<"f", "a", "l", "s", "e">>, QuotedZero, NoPrimitive }

\* a section whose header ini reads as an object that has no primitive:
\* ini.parse throws the TypeError of the property key
Unreadable == SecLine(NoPrimitive) \o KVLine(region, <<"e", "u">>)

ValidityTexts ==
  { HandWritten(<<"B">>, CredB),
    Unreadable,
    WithoutExpiration(<<"A">>),
    WithExpiration(<<"A">>, <<>>),
    SecLine(<<"A">>),
    Inherited \o WithExpiration(<<"A">>, ShortISO) }
    \cup { WithExpiration(<<"A">>, raw) : raw \in OtherExpirations }
    \cup { WithExpiration(<<"A">>, toISOString(e)) : e \in ExpTimes }

ValidityFiles ==
  { <<NoFile, TRUE, AllowAll>>,
    <<File(TRUE, FALSE, TRUE, Utf8Encode(HandWritten(<<"A">>, CredA))), TRUE, AllowAll>>,
    <<Directory, TRUE, AllowAll>> }
    \cup { <<TextFile(t), TRUE, AllowAll>> : t \in ValidityTexts }

\* the one caller
Callers == {1}

\* the local times of the hosts, in seconds east of UTC: UTC, and five
\* hours west of it
HostZones == {0, -5 * 3600}

InitValidity ==
  /\ \E fs \in ValidityFiles : file = fs[1] /\ dir = fs[2] /\ perm = fs[3]
  /\ committed = file
  /\ now = 0
  /\ InitProcs
  /\ hist = NoHistory
  /\ rsIn = NoRoleSet
  /\ rsOut = NoRoleResult
  /\ zone \in HostZones

NextValidity ==
  \/ \E i \in Callers :
       \/ \E profile \in Profiles : CallCheck(i, profile)
       \/ \E profile \in Profiles, c \in StsCredentials : CallSave(i, profile, c)
       \/ \E profile \in Profiles \cup {NoProfile} : CallLoad(i, profile)
       \/ ReadOpen(i)
       \/ ReadFstat(i)
       \/ ReadRead(i)
       \/ ReadClose(i)
       \/ SaveMkdir(i)
       \/ SaveOpen(i)
       \/ SaveWrite(i)
       \/ SaveClose(i)
       \/ Return(i)
  \/ Tick

SpecValidity == InitValidity /\ [][NextValidity]_vars

----------------------------------------------------------------------------
(* SpecMonotone: one caller running validity checks and saves one after    *)
(* the other while time passes, the results of the checks of each profile  *)
(* kept in hist.                                                           *)

\* stores of which the profile A holds no expiration, an expiration that is
\* no date, a date in the local time of the host, a number in quotes, or
\* the ISO string of a time (the saves write others)
MonotoneTexts ==
  { WithoutExpiration(<<"A">>) }
    \cup { WithExpiration(<<"A">>, raw) :
              raw \in {NotADate, LocalISO, QuotedZero, toISOString(ExpTime(1, 0))} }

\* the profiles that are checked and saved
MonotoneProfiles == { <<"A">>, <<"B">> }

MonotoneFiles ==
  { <<NoFile, TRUE, AllowAll>> }
    \cup { <<TextFile(t), TRUE, AllowAll>> : t \in MonotoneTexts }

InitMonotone ==
  /\ \E fs \in MonotoneFiles : file = fs[1] /\ dir = fs[2] /\ perm = fs[3]
  /\ committed = file
  /\ now = 0
  /\ InitProcs
  /\ hist = [p \in MonotoneProfiles |-> NoChecks]
  /\ rsIn = NoRoleSet
  /\ rsOut = NoRoleResult
  /\ zone \in HostZones

NextMonotone ==
  \/ \E i \in Callers :
       \/ \E profile \in MonotoneProfiles : CallCheck(i, profile)
       \/ \E profile \in MonotoneProfiles : CallSave(i, profile, CredB)
       \/ ReadOpen(i)
       \/ ReadFstat(i)
       \/ ReadRead(i)
       \/ ReadClose(i)
       \/ SaveMkdir(i)
       \/ SaveOpen(i)
       \/ SaveWrite(i)
       \/ SaveClose(i)
       \/ Return(i)
  \/ Tick

SpecMonotone == InitMonotone /\ [][NextMonotone]_vars

----------------------------------------------------------------------------
(* assumeRoleWithSAML(samlAssertion, awsSharedCredentialsFile, awsProfile,  *)
(* role, customSessionDuration), lines 60-92.  IAM and STS are services: a  *)
(* request is answered with a response or with an error, which .promise()  *)
(* rejects with.  One action for each turn of the method: the call, which *)
(* runs up to the first await and sends its request, and the answers of   *)
(* the services; the await of saveCredentials is the steps of the read and *)
(* of the save.  The debug message of line 84 is not modelled.             *)

\* the error that the rejected promise of a service request throws
ServiceError(code) == JSThrow(code)

\* the errors that IAM and STS answer with
IamErrors == {"NoSuchEntity", "AccessDenied"}

StsErrors == {"ExpiredToken", "AccessDenied"}

\* iamResponse of line 66: Role.MaxSessionDuration, or the error of a
\* request that failed
IamResponse(ok, max, error) == [ok |-> ok, MaxSessionDuration |-> max, error |-> error]

\* session durations, in seconds
Durations == { h * 3600 : h \in 1..MaxHours }

CustomDurations == {NoDuration} \cup Durations

IamResponses ==
  { IamResponse(FALSE, NoDuration, e) : e \in IamErrors }
    \cup { IamResponse(TRUE, m, "") : m \in Durations }

\* stsResponse of line 77, or the error of a request that failed
StsResponse(ok, c, error) ==
  [ok |-> ok, Credentials |-> AwsCredentials(c), error |-> error]

StsResponses ==
  { StsResponse(FALSE, NoCreds, e) : e \in StsErrors }
    \cup { StsResponse(TRUE, c, "") : c \in StsCredentials }

SessionRoles ==
  { SessionRole("admin", "arn:role/A", "arn:idp/X", 3600),
    SessionRole("dev", "arn:role/B", "arn:idp/Y", 900) }

SamlAssertions == {"saml-1"}

\* lines 61-64: sessionDuration before the lookup
sessionDurationAtCall(role, custom) ==
  IF custom # NoDuration THEN custom ELSE role.sessionDuration

\* line 70: the condition of the clamp and of the warning
exceedsMaximum(custom, max) == custom > max

\* lines 64-71 without the clamp of lines 70-71
sessionDurationUnclamped(custom, max) == custom

\* lines 64-71: sessionDuration after the lookup returned max
sessionDurationClamped(custom, max) ==
  IF exceedsMaximum(custom, max) THEN max ELSE custom

\* lines 77-82: the parameters of the exchange
StsRequest(a) ==
  [DurationSeconds |-> a.sessionDuration, PrincipalArn |-> a.role.principalArn,
   RoleArn |-> a.role.roleArn, SAMLAssertion |-> a.samlAssertion]

\* lines 86-91: the credentials handed to saveCredentials
credentialsOf(stsResponse) ==
  Cred(stsResponse.Credentials.AccessKeyId, stsResponse.Credentials.SecretAccessKey,
       stsResponse.Credentials.Expiration, stsResponse.Credentials.SessionToken)

\* the arguments and locals of the method after lines 61-64
Started(saml, role, custom) ==
  [NoAssume EXCEPT !.role = role, !.samlAssertion = saml, !.custom = custom,
                   !.sessionDuration = sessionDurationAtCall(role, custom),
                   !.file = file, !.dir = dir]

\* line 66: the getRole request is sent
getRoleSent(a) == [a EXCEPT !.getRole = Append(@, [RoleName |-> a.role.name])]

\* lines 77-82: the exchange request is sent
stsSent(a) == [a EXCEPT !.sts = Append(@, StsRequest(a))]

\* lines 70-74: the clamp and the warning, the lookup having returned max
Clamped(a, max) ==
  [a EXCEPT !.max = max,
            !.sessionDuration = sessionDurationClamped(a.custom, max),
            !.warn = IF exceedsMaximum(a.custom, max)
                     THEN Append(@, <<a.custom, max>>) ELSE @]

\* CallAssume asking IAM for the maximum also when no custom duration is given
CallAssumeAlwaysLookup(i, profile, saml, role, custom) ==
  /\ pc[i] = "idle"
  /\ pc' = [pc EXCEPT ![i] = "assume_getRole"]
  /\ call' = [call EXCEPT ![i] = Call("assumeRoleWithSAML", profile, NoCreds)]
  /\ result' = [result EXCEPT ![i] = NoResult]
  /\ ar' = [ar EXCEPT ![i] = getRoleSent(Started(saml, role, custom))]
  /\ UNCHANGED <<file, dir, perm, now, rd, wr, credentials, pre, post, overlapped,
                 committed, evalNow, seen, rsIn, rsOut, hist, zone, builtins>>

\* the call, up to the first await: with a custom duration lines 61-66,
\* which send the getRole request; with none lines 61-82, which send the
\* exchange request
CallAssume(i, profile, saml, role, custom) ==
  /\ pc[i] = "idle"
  /\ pc' = [pc EXCEPT ![i] = IF custom # NoDuration THEN "assume_getRole" ELSE "assume_sts"]
  /\ call' = [call EXCEPT ![i] = Call("assumeRoleWithSAML", profile, NoCreds)]
  /\ result' = [result EXCEPT ![i] = NoResult]
  /\ ar' = [ar EXCEPT ![i] = IF custom # NoDuration
                             THEN getRoleSent(Started(saml, role, custom))
                             ELSE stsSent(Started(saml, role, custom))]
  /\ UNCHANGED <<file, dir, perm, now, rd, wr, credentials, pre, post, overlapped,
                 committed, evalNow, seen, rsIn, rsOut, hist, zone, builtins>>

\* the answer to the getRole request of line 66: an error is thrown out of
\* the method; a response is followed by lines 70-82, which send the
\* exchange request
AssumeGetRole(i) ==
  /\ pc[i] = "assume_getRole"
  /\ \E r \in IamResponses :
       IF ~r.ok
       THEN /\ ar' = [ar EXCEPT ![i].rejected = Append(@, r.error)]
            /\ pc' = [pc EXCEPT ![i] = "done"]
            /\ result' = [result EXCEPT ![i] = Thrown(ServiceError(r.error))]
       ELSE /\ ar' = [ar EXCEPT ![i] = stsSent(Clamped(ar[i], r.MaxSessionDuration))]
            /\ pc' = [pc EXCEPT ![i] = "assume_sts"]
            /\ UNCHANGED result
  /\ UNCHANGED <<file, dir, perm, now, call, rd, wr, credentials, pre, post,
                 overlapped, committed, evalNow, seen, rsIn, rsOut, hist, zone, builtins>>

\* AssumeSts going on to saveCredentials when the exchange failed
AssumeStsIgnoreError(i) ==
  /\ pc[i] = "assume_sts"
  /\ \E r \in StsResponses :
       /\ ar' = [ar EXCEPT ![i] =
                 [@ EXCEPT !.stsOk = r.ok, !.issued = r.Credentials,
                           !.rejected = IF r.ok THEN @ ELSE Append(@, r.error)]]
       /\ pc' = [pc EXCEPT ![i] = "read_open"]
       /\ call' = [call EXCEPT ![i].creds = credentialsOf(r)]
       /\ pre' = [pre EXCEPT ![i] = file]
       /\ UNCHANGED <<result, overlapped>>
  /\ UNCHANGED <<file, dir, perm, now, rd, wr, credentials, post, committed,
                 evalNow, seen, rsIn, rsOut, hist, zone, builtins>>

\* AssumeSts sending the request again when the exchange failed
AssumeStsRetry(i) ==
  /\ pc[i] = "assume_sts"
  /\ \E r \in StsResponses :
       /\ ar' = [ar EXCEPT ![i] =
                 [@ EXCEPT !.sts = IF r.ok THEN @ ELSE Append(@, StsRequest(ar[i])),
                           !.stsOk = r.ok, !.issued = r.Credentials,
                           !.rejected = IF r.ok THEN @ ELSE Append(@, r.error)]]
       /\ pc' = [pc EXCEPT ![i] = IF r.ok THEN "read_open" ELSE "assume_sts"]
       /\ call' = [call EXCEPT ![i].creds = credentialsOf(r)]
       /\ pre' = [pre EXCEPT ![i] = file]
       /\ UNCHANGED <<result, overlapped>>
  /\ UNCHANGED <<file, dir, perm, now, rd, wr, credentials, post, committed,
                 evalNow, seen, rsIn, rsOut, hist, zone, builtins>>

\* the answer to the exchange request of lines 77-82: an error is thrown
\* out of the method; a response is followed by lines 84-91, the call of
\* saveCredentials with the credentials of the response, up to the open of
\* its read
AssumeSts(i) ==
  /\ pc[i] = "assume_sts"
  /\ \E r \in StsResponses :
       IF ~r.ok
       THEN /\ ar' = [ar EXCEPT ![i].rejected = Append(@, r.error)]
            /\ pc' = [pc EXCEPT ![i] = "done"]
            /\ result' = [result EXCEPT ![i] = Thrown(ServiceError(r.error))]
            /\ UNCHANGED <<call, pre, overlapped>>
       ELSE /\ ar' = [ar EXCEPT ![i] = [@ EXCEPT !.stsOk = TRUE,
                                                 !.issued = r.Credentials]]
            /\ pc' = [pc EXCEPT ![i] = "read_open"]
            /\ call' = [call EXCEPT ![i].creds = credentialsOf(r)]
            /\ pre' = [pre EXCEPT ![i] = file]
            /\ overlapped' = [j \in Procs |->
                                IF j = i THEN \E k \in Procs \ {i} : InSave(k)
                                ELSE overlapped[j] \/ InSave(j)]
            /\ UNCHANGED result
  /\ UNCHANGED <<file, dir, perm, now, rd, wr, credentials, post, committed,
                 evalNow, seen, rsIn, rsOut, hist, zone, builtins>>

----------------------------------------------------------------------------
(* SpecAssume: one caller running assumeRoleWithSAML again and again on    *)
(* one store path, the services answering as they please.                  *)

InitAssume ==
  /\ \E fs \in StoreFiles : file = fs[1] /\ dir = fs[2] /\ perm = fs[3]
  /\ committed = file
  /\ now = 0
  /\ InitProcs
  /\ hist = NoHistory
  /\ rsIn = NoRoleSet
  /\ rsOut = NoRoleResult
  /\ zone = 0

NextAssume ==
  \E i \in Callers :
    \/ \E profile \in Profiles, saml \in SamlAssertions, role \in SessionRoles,
          custom \in CustomDurations : CallAssume(i, profile, saml, role, custom)
    \/ AssumeGetRole(i)
    \/ AssumeSts(i)
    \/ ReadOpen(i)
    \/ ReadFstat(i)
    \/ ReadRead(i)
    \/ ReadClose(i)
    \/ SaveMkdir(i)
    \/ SaveOpen(i)
    \/ SaveWrite(i)
    \/ SaveClose(i)
    \/ Return(i)

SpecAssume == InitAssume /\ [][NextAssume]_vars

----------------------------------------------------------------------------
(* prepareRoleWithSAML(response, customRoleArn), lines 30-54.  The parser  *)
(* is a collaborator: parsed is what parseSamlResponse returned.           *)

Role(roleArn, principalArn) == [roleArn |-> roleArn, principalArn |-> principalArn]

RoleArns == {"arn:role/A", "arn:role/a", "arn:role/B"}

PrincipalArns == {"arn:idp/X", "arn:idp/Y"}

Roles == { Role(r, p) : r \in RoleArns, p \in PrincipalArns }

RoleLists == UNION { [1..n -> Roles] : n \in 0..MaxRoles }

\* the falsy customRoleArn: no role requested
NoRoleArn == ""

\* a role identifier that no parsed role has
UnknownRoleArn == "arn:role/C"

RoleResult(kind, roles, samlAssertion) ==
  [kind |-> kind, roles |-> roles, samlAssertion |-> samlAssertion]

\* new errors.RoleNotFoundError(roles), thrown: the error keeps the roles
\* it is constructed with
RoleNotFoundError(roles) == RoleResult("RoleNotFoundError", roles, "")

\* roles.find(role => role.roleArn === customRoleArn): the index of the
\* first match, 0 for undefined
FindRole(roles, customRoleArn) ==
  IF \E n \in 1..Len(roles) : roles[n].roleArn = customRoleArn
  THEN CHOOSE n \in 1..Len(roles) :
         /\ roles[n].roleArn = customRoleArn
         /\ \A m \in 1..(n - 1) : roles[m].roleArn # customRoleArn
  ELSE 0

IsRequested(role, customRoleArn) == role.roleArn = customRoleArn

\* prepareRoleWithSAML keeping every role of the requested identifier
prepareRoleWithSAMLFilter(parsed, customRoleArn) ==
  IF customRoleArn = NoRoleArn
  THEN RoleResult("return", parsed.roles, parsed.samlAssertion)
  ELSE IF FindRole(parsed.roles, customRoleArn) = 0
       THEN RoleNotFoundError(parsed.roles)
       ELSE RoleResult("return",
                       SelectSeq(parsed.roles, LAMBDA r : IsRequested(r, customRoleArn)),
                       parsed.samlAssertion)

\* prepareRoleWithSAML returning all parsed roles when the requested one
\* is not found
prepareRoleWithSAMLLenient(parsed, customRoleArn) ==
  IF customRoleArn = NoRoleArn \/ FindRole(parsed.roles, customRoleArn) = 0
  THEN RoleResult("return", parsed.roles, parsed.samlAssertion)
  ELSE RoleResult("return", <<parsed.roles[FindRole(parsed.roles, customRoleArn)]>>,
                  parsed.samlAssertion)

\* prepareRoleWithSAML looking the role up also when none is requested
prepareRoleWithSAMLAlwaysFind(parsed, customRoleArn) ==
  IF FindRole(parsed.roles, customRoleArn) = 0
  THEN RoleNotFoundError(parsed.roles)
  ELSE RoleResult("return", <<parsed.roles[FindRole(parsed.roles, customRoleArn)]>>,
                  parsed.samlAssertion)

\* lines 33-53
prepareRoleWithSAML(parsed, customRoleArn) ==
  IF customRoleArn = NoRoleArn
  THEN RoleResult("return", parsed.roles, parsed.samlAssertion)
  ELSE IF FindRole(parsed.roles, customRoleArn) = 0
       THEN RoleNotFoundError(parsed.roles)
       ELSE RoleResult("return", <<parsed.roles[FindRole(parsed.roles, customRoleArn)]>>,
                       parsed.samlAssertion)

\* a call of prepareRoleWithSAML
Resolve ==
  /\ rsOut.kind = "none"
  /\ rsOut' = prepareRoleWithSAML(rsIn, rsIn.customRoleArn)
  /\ UNCHANGED <<file, dir, perm, now, pc, call, rd, wr, credentials, result, pre,
                 post, overlapped, committed, evalNow, seen, rsIn, ar,
                 hist, zone, builtins>>

----------------------------------------------------------------------------
(* SpecResolve: prepareRoleWithSAML on every parsed role list of up to     *)
(* MaxRoles roles and every request.                                       *)

InitResolve ==
  /\ \E roles \in RoleLists, saml \in {"saml-1", "saml-2"},
        arn \in RoleArns \cup {NoRoleArn, UnknownRoleArn} :
       rsIn = [roles |-> roles, samlAssertion |-> saml, customRoleArn |-> arn]
  /\ rsOut = NoRoleResult
  /\ file = NoFile /\ dir = FALSE /\ perm = AllowAll /\ committed = NoFile
  /\ now = 0
  /\ InitProcs
  /\ hist = NoHistory
  /\ zone = 0

NextResolve == Resolve

SpecResolve == InitResolve /\ [][NextResolve]_vars

----------------------------------------------------------------------------
(* What the claims speak of *)

\* what loadCredentials(path, profile) returns on the complete file f, its
\* directory there and nothing denied: a value, or the error thrown
Stored(f, profile) == loadCredentials(readFile(f, TRUE, AllowAll), profile)

\* the names at the top of the file f: its profiles and the keys before
\* its first section
Names(f) ==
  LET config == Stored(f, NoProfile) IN
  IF config.kind = "object"
  THEN { config.props[n].name : n \in 1..Len(config.props) }
  ELSE {}

\* what file f holds under name: the fields of a section, each with its
\* value; the value of a key; nothing for a name that is not there or a
\* section without fields
Values(f, name) ==
  LET e == Stored(f, name) IN
  IF e.kind = "object" THEN [n \in 1..Len(e.props) |-> <<e.props[n].name, e.props[n].v>>]
  ELSE IF e.kind = "undefined" THEN <<>>
  ELSE <<e>>

\* the profile load(path, p) is to yield after save(path, p, c)
IsProfileOf(v, c) ==
  /\ v.kind = "object"
  /\ Len(v.props) = 4
  /\ GetProp(v, aws_access_key_id) = JSString(c.accessKeyId)
  /\ GetProp(v, aws_secret_access_key) = JSString(c.secretAccessKey)
  /\ GetProp(v, aws_session_token) = JSString(c.sessionToken)
  /\ GetProp(v, aws_session_expiration) = JSString(toISOString(c.sessionExpiration))

\* the step that ends the read of a load by invocation j
LoadEnds(j) ==
  call[j].op = "loadCredentials" /\ pc[j] \in ReadSteps /\ pc'[j] = "done"

\* what a load of profile settles with when it reads the complete file f
LoadOf(f, profile) == Settled(loadCredentials(readFile(f, dir, perm), profile))

----------------------------------------------------------------------------
(* C1: a completed save(path, A, C') that no other save overlapped leaves  *)
(* every field of every profile other than A exactly as it was when the    *)
(* save was called, and A's entry is the new one.                          *)
C1_MergeInvariant ==
  \A i \in Procs :
    (SaveReturned(i) /\ ~overlapped[i]) =>
      /\ \A q \in (Names(pre[i]) \cup Names(post[i])) \ {call[i].profile} :
           Values(post[i], q) = Values(pre[i], q)
      /\ IsProfileOf(Stored(post[i], call[i].profile), call[i].creds)

(* C2: when two invocations have run save on the same path for different   *)
(* profiles P and Q, in any interleaving, the store holds P's new fields   *)
(* and Q's new fields after both saves complete.                           *)
C2_NoLostUpdate ==
  \A i, j \in Procs :
    (SaveReturned(i) /\ SaveReturned(j) /\ call[i].profile # call[j].profile) =>
      /\ IsProfileOf(Stored(file, call[i].profile), call[i].creds)
      /\ IsProfileOf(Stored(file, call[j].profile), call[j].creds)

(* C3: a load that reads while a save is under way returns what it would   *)
(* return on the complete file from before the save's write (the file as   *)
(* it was when the load was called, or as the last write left it) or on    *)
(* the complete file after it (the text a save under way is to write).     *)
C3_NoPartialRead ==
  [][\A j \in Procs :
       LoadEnds(j) =>
         \/ result'[j] = LoadOf(pre[j], call[j].profile)
         \/ result'[j] = LoadOf(committed, call[j].profile)
         \/ \E i \in Procs :
              /\ pc[i] \in SaveSteps
              /\ ~IsThrow(Encoded(i))
              /\ result'[j] = LoadOf(TextFile(Encoded(i).val), call[j].profile)]_vars

(* C4: after save(path, p, C) has returned, with no write since, a          *)
(* load(path, p) finds the file (created when it was absent) and yields a  *)
(* profile of exactly C's access key, secret key and session token and the *)
(* ISO-8601 string of C's expiration.                                      *)
C4_RoundTrip ==
  [][\A i, j \in Procs :
       ( /\ LoadEnds(j)
         /\ i \in seen[j] /\ SaveReturned(i)
         /\ file = post[i]
         /\ call[j].profile = call[i].profile ) =>
           /\ file.exists
           /\ result'[j].kind = "return"
           /\ IsProfileOf(result'[j].value, call[i].creds)]_vars

----------------------------------------------------------------------------
(* The validity claims, under SpecValidity.  One caller runs one operation *)
(* at a time, so the file a finished check read is the file as it is.      *)

CheckDone(i) == pc[i] = "done" /\ call[i].op = "getSessionExpirationFromCredentials"

CheckReturned(i) == CheckDone(i) /\ result[i].kind = "return"

\* the profile the check loaded has the property aws_session_expiration
HasExpirationField(i) ==
  credentials[i].kind = "object" /\ HasProp(credentials[i].props, aws_session_expiration)

\* credentials.aws_session_expiration of the profile the check loaded
StoredExpiration(i) == GetProp(credentials[i], aws_session_expiration)

\* texts of an expiration line that are dates, each with the milliseconds
\* since the epoch that it stands for: a text that names no zone is of the
\* local time of the host
DatedTexts ==
  { <<toISOString(E), E>> : E \in ExpTimes }
    \cup { <<ShortISO, 31000>>, <<UTCString, 31000>>, <<LocalISO, 31000 - zone * 1000>> }

(* C5: for a stored expiration E that is a date, the check at time now     *)
(* returns isValid = true exactly when E - 30 s > now: E = now + 30 s is   *)
(* not valid and E = now + 31 s is.                                        *)
C5_StrictBoundary ==
  \A i \in Procs : \A dt \in DatedTexts :
    (CheckReturned(i) /\ StoredExpiration(i) = JSString(dt[1])) =>
      /\ result[i].isValid <=> (dt[2] - SESSION_EXPIRATION_DELTA > evalNow[i])
      /\ (dt[2] = evalNow[i] + 30000) => ~result[i].isValid
      /\ (dt[2] = evalNow[i] + 31000) => result[i].isValid

\* a check made exactly 30 s before the stored expiration, at a time other
\* than 0, returned isValid = false
C5_Witness ==
  \E i \in Procs :
    /\ CheckReturned(i)
    /\ evalNow[i] > 0
    /\ StoredExpiration(i) = JSString(toISOString(evalNow[i] + 30000))
    /\ ~result[i].isValid

(* C6: whenever the stored profile has an expiration field, the check      *)
(* reports expiresAt = stored expiration - delta, valid or not, and never  *)
(* an absent expiresAt.                                                    *)
C6_ExpiresAtWheneverField ==
  \A i \in Procs :
    (CheckReturned(i) /\ HasExpirationField(i)) =>
      /\ ~result[i].expiresAt.null
      /\ \A dt \in DatedTexts :
           StoredExpiration(i) = JSString(dt[1]) =>
             result[i].expiresAt = TimeOf(Num(dt[2] - SESSION_EXPIRATION_DELTA))

\* the line is the header of a section of the name, or of one within it
Heads(line, name) ==
  /\ Len(line) >= 2 /\ line[1] = "[" /\ line[Len(line)] = "]"
  /\ unsafe(SubSeq(line, 2, Len(line) - 1)).kind = "string"
  /\ \/ unsafe(SubSeq(line, 2, Len(line) - 1)).val = name
     \/ /\ Len(unsafe(SubSeq(line, 2, Len(line) - 1)).val) > Len(name)
        /\ SubSeq(unsafe(SubSeq(line, 2, Len(line) - 1)).val, 1, Len(name) + 1)
             = name \o <<".">>

\* no line of the text is the header of a section of the name
NoSection(text, name) ==
  \A n \in 1..Len(SplitLines(text, 1)) : ~Heads(SplitLines(text, 1)[n], name)

\* what is at the path is a file that can be read
IsReadable(f) == f.exists /\ f.readable /\ f.kind = "file"

\* the file f is one whose text ini.parse reads
IsParsed(f) == IsReadable(f) /\ iniParse(TextOf(f)).kind = "object"

\* the profile name has a section in the file f, which ini.parse reads, and
\* the section has no expiration field
NoExpirationField(f, name) ==
  /\ IsParsed(f)
  /\ GetProp(iniParse(TextOf(f)), name).kind = "object"
  /\ ~HasProp(GetProp(iniParse(TextOf(f)), name).props, aws_session_expiration)

(* C7 as claimed: when the file does not exist, or exists and has no       *)
(* section for the profile, or the section has no expiration field, the    *)
(* check raises no error and returns {isValid: false, expiresAt: absent}.  *)
C7_AbsentIsInvalid ==
  \A i \in Procs :
    ( /\ CheckDone(i)
      /\ \/ ~file.exists
         \/ IsReadable(file) /\ NoSection(TextOf(file), call[i].profile)
         \/ NoExpirationField(file, call[i].profile) ) =>
      result[i] = Validity(FALSE, NullTime)

(* C7 as amended: when the file does not exist, or is a file that          *)
(* ini.parse reads and that has no section for the profile, or has one     *)
(* without expiration field, the check raises no error and returns         *)
(* {isValid: false, expiresAt: absent}; on a file that ini.parse cannot    *)
(* read the check throws the TypeError of ini.parse, whatever its sections.*)
C7_AbsentWhenParsed ==
  \A i \in Procs :
    CheckDone(i) =>
      /\ ( \/ ~file.exists
           \/ IsParsed(file) /\ NoSection(TextOf(file), call[i].profile)
           \/ NoExpirationField(file, call[i].profile) ) =>
           result[i] = Validity(FALSE, NullTime)
      /\ (IsReadable(file) /\ IsThrow(iniParse(TextOf(file)))) =>
           result[i] = Thrown(TypeError)

\* a check of a profile has ended on a file that ini.parse reads and that
\* has other sections only
C7_Witness ==
  \E i \in Procs :
    /\ CheckDone(i) /\ call[i].profile = <<"A">>
    /\ IsParsed(file) /\ iniParse(TextOf(file)).props # <<>>
    /\ NoSection(TextOf(file), <<"A">>)
    /\ result[i] = Validity(FALSE, NullTime)

----------------------------------------------------------------------------
(* The claims on assumeRoleWithSAML, under SpecAssume *)

AssumeOp(i) == call[i].op = "assumeRoleWithSAML"

AssumeReturned(i) == AssumeOp(i) /\ pc[i] = "done" /\ result[i].kind = "return"

\* the lookup of the maximum duration was answered
LookedUp(i) == AssumeOp(i) /\ ar[i].getRole # <<>> /\ ar[i].max # NoDuration

\* the lookup, or the exchange, was answered with an error
LookupFailed(i) ==
  /\ AssumeOp(i) /\ pc[i] # "assume_getRole"
  /\ ar[i].getRole # <<>> /\ ar[i].max = NoDuration

ExchangeFailed(i) ==
  AssumeOp(i) /\ pc[i] # "assume_sts" /\ ar[i].sts # <<>> /\ ~ar[i].stsOk

Smaller(a, b) == IF a < b THEN a ELSE b

(* C11: with a custom duration d requested and the role's maximum m looked *)
(* up, the exchange is asked for min(d, m) seconds; a warning is logged    *)
(* exactly when d > m; and after the clamp the call goes on to the         *)
(* exchange instead of failing: its request is sent.                       *)
C11_ClampDuration ==
  \A i \in Procs :
    (LookedUp(i) /\ ar[i].custom # NoDuration) =>
      /\ \A n \in 1..Len(ar[i].sts) :
           ar[i].sts[n].DurationSeconds = Smaller(ar[i].custom, ar[i].max)
      /\ (ar[i].warn # <<>>) <=> (ar[i].custom > ar[i].max)
      /\ Len(ar[i].warn) <= 1
      /\ ar[i].sts # <<>>

\* a call asking for more than the maximum has returned: the warning was
\* logged and the exchange was asked for the maximum
C11_Witness ==
  \E i \in Procs :
    /\ AssumeReturned(i) /\ LookedUp(i)
    /\ ar[i].custom > ar[i].max
    /\ ar[i].warn = << <<ar[i].custom, ar[i].max>> >>
    /\ ar[i].sts[1].DurationSeconds = ar[i].max

(* C12: the maximum duration is looked up if and only if a custom duration *)
(* is requested: with one, the lookup is made before the exchange; with    *)
(* none, no lookup is made and the exchange is asked for the role's own    *)
(* session duration.                                                       *)
C12_LookupIffCustom ==
  \A i \in Procs :
    AssumeOp(i) =>
      /\ (ar[i].custom = NoDuration) =>
           /\ ar[i].getRole = <<>>
           /\ \A n \in 1..Len(ar[i].sts) :
                ar[i].sts[n].DurationSeconds = ar[i].role.sessionDuration
      /\ (ar[i].custom # NoDuration) =>
           /\ ar[i].getRole = <<[RoleName |-> ar[i].role.name]>>
           /\ ar[i].sts # <<>> => LookedUp(i)

\* a call without custom duration has returned, the exchange asked for the
\* 900 seconds of the role and IAM not asked
C12_Witness ==
  \E i \in Procs :
    /\ AssumeReturned(i)
    /\ ar[i].custom = NoDuration
    /\ ar[i].getRole = <<>>
    /\ Len(ar[i].sts) = 1 /\ ar[i].sts[1].DurationSeconds = 900

(* C13: when the lookup or the exchange fails, the call fails with the     *)
(* error that the service rejected the request with, and the file and its  *)
(* directory are as they were when it was called, nothing having been      *)
(* written; and the call reaches the save, or changes the file or the      *)
(* directory, only after an exchange that succeeded.                       *)
C13_FailureSavesNothing ==
  \A i \in Procs :
    /\ (LookupFailed(i) \/ ExchangeFailed(i)) =>
         /\ pc[i] = "done"
         /\ Len(ar[i].rejected) = 1
         /\ result[i] = Thrown(ServiceError(ar[i].rejected[1]))
         /\ file = ar[i].file /\ dir = ar[i].dir
         /\ ar[i].writes = 0
    /\ (AssumeOp(i) /\ (InSave(i) \/ ar[i].writes > 0 \/ file # ar[i].file
                                  \/ dir # ar[i].dir)) =>
         ar[i].stsOk

\* a call whose exchange was rejected because the assertion had expired,
\* after a lookup that answered, has ended with that error on a path
\* without file or directory
C13_Witness ==
  \E i \in Procs :
    /\ ExchangeFailed(i) /\ LookedUp(i)
    /\ pc[i] = "done" /\ result[i] = Thrown(ServiceError("ExpiredToken"))
    /\ ~file.exists /\ ~dir

\* the profile that holds exactly the credentials k of an STS response
IsProfileOfIssued(v, k) ==
  /\ v.kind = "object"
  /\ Len(v.props) = 4
  /\ GetProp(v, aws_access_key_id) = JSString(k.AccessKeyId)
  /\ GetProp(v, aws_secret_access_key) = JSString(k.SecretAccessKey)
  /\ GetProp(v, aws_session_token) = JSString(k.SessionToken)
  /\ GetProp(v, aws_session_expiration) = JSString(toISOString(k.Expiration))

(* C15: when a call of assumeRoleWithSAML has returned, the calls on the   *)
(* path running one after the other, the stored profile holds exactly the *)
(* four fields of the credentials its exchange issued, whatever earlier    *)
(* calls stored for the profile.                                           *)
C15_LastWriteWins ==
  \A i \in Procs :
    AssumeReturned(i) =>
      IsProfileOfIssued(Stored(file, call[i].profile), ar[i].issued)

(* C17: in one call of assumeRoleWithSAML, ended or not, failed or not,    *)
(* at most one getRole request and at most one exchange request are sent   *)
(* and fs.writeFile is called at most once.                                *)
C17_NoRetry ==
  \A i \in Procs :
    AssumeOp(i) =>
      /\ Len(ar[i].getRole) <= 1
      /\ Len(ar[i].sts) <= 1
      /\ ar[i].writes <= 1

\* a call has failed in the exchange after one lookup, one exchange request
\* and no write
C17_Witness ==
  \E i \in Procs :
    /\ AssumeOp(i) /\ pc[i] = "done" /\ result[i] = Thrown(ServiceError("AccessDenied"))
    /\ Len(ar[i].getRole) = 1 /\ Len(ar[i].sts) = 1 /\ ar[i].writes = 0

----------------------------------------------------------------------------
(* The claims on read failures and saved sections, under Spec *)

SaveThrown(i) ==
  pc[i] = "done" /\ call[i].op = "saveCredentials" /\ result[i].kind = "throw"

\* the step in which the read of invocation i ends: an open that fails,
\* or the close
ReadEnds(i) == pc[i] \in {"read_open", "read_close"} /\ pc'[i] \notin ReadSteps

\* what a read of the path as it is ends with: "OK", or the error of the
\* open, of the fstat or of the read
ReadError == readFile(file, dir, perm).code

\* a read of the path fails, and not because the file is not there
ReadFails == ReadError \notin {"OK", "ENOENT"}

(* C14: a load that reads a path without file returns undefined and does   *)
(* not throw; a load whose read fails otherwise, in the open, the fstat or *)
(* the read, throws the error of the read; and a save whose load reads     *)
(* such a path throws that error and ends there, the file as it was when   *)
(* the save was called, the directory as it was and fs.writeFile not       *)
(* called.                                                                 *)
C14_ReadFailures ==
  [][\A i \in Procs :
       /\ LoadEnds(i) =>
            /\ ReadError = "ENOENT" => result'[i] = Returned(JSUndefined)
            /\ ReadFails => result'[i] = Thrown(JSThrow(ReadError))
       /\ (call[i].op \in Savers /\ ReadEnds(i) /\ ReadFails) =>
            /\ pc'[i] = "done"
            /\ result'[i] = Thrown(JSThrow(ReadError))
            /\ file' = file /\ file' = pre[i] /\ dir' = dir
            /\ ar'[i].writes = 0]_vars

\* where the path is a directory a save has failed before its write and a
\* load has failed, both with the error of the read
C14_Witness ==
  \E i, j \in Procs :
    /\ SaveThrown(i) /\ result[i] = Thrown(JSThrow("EISDIR")) /\ ar[i].writes = 0
    /\ pc[j] = "done" /\ call[j].op = "loadCredentials"
    /\ result[j] = Thrown(JSThrow("EISDIR"))
    /\ file = Directory

(* C19 as claimed: when a save(path, p, C) has returned, the section of p  *)
(* in the file it wrote holds exactly the four credential keys, with C's   *)
(* values, and no other key.                                               *)
C19_ExactlyFourKeys ==
  \A i \in Procs :
    SaveReturned(i) =>
      IsProfileOf(Stored(post[i], call[i].profile), call[i].creds)

----------------------------------------------------------------------------
(* The claims on reads and on an expiration that is no date, under         *)
(* SpecValidity, and on validity over time, under SpecMonotone             *)

ReadOps == {"loadCredentials", "getSessionExpirationFromCredentials"}

(* C16: no step of a load or of a validity check, whatever it returns or   *)
(* throws, changes the file or its directory, sends a request to IAM or    *)
(* STS, or calls fs.writeFile.                                             *)
C16_PureReads ==
  [][\A i \in Procs :
       ((pc'[i] # pc[i] \/ rd'[i] # rd[i]) /\ call'[i].op \in ReadOps) =>
         /\ file' = file /\ dir' = dir
         /\ ar'[i].getRole = <<>> /\ ar'[i].sts = <<>> /\ ar'[i].writes = 0]_vars

\* a load has returned undefined on a path without file, at a time other
\* than 0
C16_Witness ==
  \E i \in Procs :
    /\ pc[i] = "done" /\ call[i].op = "loadCredentials"
    /\ result[i] = Returned(JSUndefined)
    /\ ~file.exists /\ now > 0

(* C18 as claimed: when the stored expiration of the profile is there, a   *)
(* text that is not empty, but is not a date, the check throws instead of  *)
(* returning a result.                                                     *)
C18_UnparsableThrows ==
  \A i \in Procs :
    ( /\ CheckDone(i)
      /\ HasExpirationField(i)
      /\ StoredExpiration(i).kind = "string" /\ StoredExpiration(i).val # <<>>
      /\ DateGetTime(Env(builtins[i], <<>>), StoredExpiration(i), zone)
           = Timed(JSUndefined, NaN) ) =>
      result[i].kind = "throw"

\* the step in which a check by invocation i ends
CheckEnds(i) ==
  /\ call[i].op = "getSessionExpirationFromCredentials"
  /\ pc[i] \in ReadSteps /\ pc'[i] = "done"

(* C20: while the clock does not go back and the profile is not saved,     *)
(* a check of the profile after one that returned isValid false returns    *)
(* isValid false, and every check that returns isValid true returns the    *)
(* expiresAt of the first that did.                                        *)
C20_ValidityMonotone ==
  [][\A i \in Procs :
       CheckEnds(i) =>
         /\ now >= hist[call[i].profile].invalidAt
         /\ hist[call[i].profile].invalid =>
              (result'[i].kind = "return" /\ ~result'[i].isValid)
         /\ (hist[call[i].profile].valid /\ result'[i].isValid) =>
              result'[i].expiresAt = hist[call[i].profile].validAt]_vars

----------------------------------------------------------------------------
(* The role resolver claims, under SpecResolve *)

Resolved == rsOut.kind # "none"

Occurrences(roles, arn) == Cardinality({ n \in 1..Len(roles) : roles[n].roleArn = arn })

(* C8: when the requested identifier r is, to the letter, that of some     *)
(* role of R, resolve returns one role only, of identifier r, which is a   *)
(* role of R with its principal, and R's assertion; also when several      *)
(* roles of R have the identifier r.                                       *)
C8_ResolvePresent ==
  (Resolved /\ rsIn.customRoleArn # NoRoleArn
            /\ Occurrences(rsIn.roles, rsIn.customRoleArn) >= 1) =>
    /\ rsOut.kind = "return"
    /\ Len(rsOut.roles) = 1
    /\ rsOut.roles[1].roleArn = rsIn.customRoleArn
    /\ \E n \in 1..Len(rsIn.roles) : rsIn.roles[n] = rsOut.roles[1]
    /\ rsOut.samlAssertion = rsIn.samlAssertion

\* resolved: a request for an identifier that two roles of R have, under
\* different principals, next to a role whose identifier differs in case
C8_Witness ==
  /\ Resolved /\ rsOut.kind = "return"
  /\ rsIn.customRoleArn = "arn:role/a"
  /\ Occurrences(rsIn.roles, "arn:role/a") = 2
  /\ rsIn.roles[1].roleArn = "arn:role/A"
  /\ rsIn.roles[2].principalArn # rsIn.roles[3].principalArn

(* C9: when the requested identifier matches no role of R, resolve fails   *)
(* with RoleNotFound carrying all of R's roles in their order, and returns *)
(* no RoleSet.                                                             *)
C9_ResolveAbsent ==
  (Resolved /\ rsIn.customRoleArn # NoRoleArn
            /\ Occurrences(rsIn.roles, rsIn.customRoleArn) = 0) =>
    /\ rsOut.kind = "RoleNotFoundError"
    /\ rsOut.roles = rsIn.roles

\* resolved: a request that two roles of R miss, one of them by case only
C9_Witness ==
  /\ Resolved /\ rsOut.kind = "RoleNotFoundError"
  /\ rsIn.customRoleArn = "arn:role/a"
  /\ Len(rsIn.roles) = 2
  /\ rsIn.roles[1].roleArn = "arn:role/A"
  /\ rsIn.roles[2].roleArn = "arn:role/B"

(* C10: when no role is requested, resolve returns R as it is, the same    *)
(* roles in the same order and the same assertion, for the empty R too,    *)
(* and never fails with RoleNotFound.                                      *)
C10_ResolveAll ==
  (Resolved /\ rsIn.customRoleArn = NoRoleArn) =>
    /\ rsOut.kind = "return"
    /\ rsOut.roles = rsIn.roles
    /\ rsOut.samlAssertion = rsIn.samlAssertion

\* resolved without a request: the empty R
C10_Witness ==
  /\ Resolved /\ rsOut.kind = "return"
  /\ rsIn.customRoleArn = NoRoleArn
  /\ rsIn.roles = <<>>

====
